---- MODULE Spec2Model ----
(***************************************************************************)
(* opsql execution/validation engine: one run of PlanExecutor.Execute or   *)
(* ApplyExecutor.Execute over a definition, against a database reached     *)
(* through database.DB / database.Transaction.                             *)
(*                                                                         *)
(* The database is a single table whose rows carry one integer column "v". *)
(* Statements are named by their leading keyword: SELECT returns every row,*)
(* INSERT adds a row with v = 0, UPDATE sets v = 1 on every row, DELETE    *)
(* removes every row, and any other text is rejected by the server.        *)
(***************************************************************************)
EXTENDS Integers, Sequences, FiniteSets, TLC

VARIABLES
  mode,       \* "plan" (PlanExecutor) or "apply" (ApplyExecutor)
  ops,        \* def.Operations
  db,         \* committed content of the table
  db0,        \* content of the table when the run started
  txTable,    \* what the open transaction has written: [upd, ins, failed, wait]
  txState,    \* "none", "open", "committed", "rolledback", "commitfailed"
  pc,         \* runRun before Execute: "config", "load", "connect", "failed";
              \*   Execute: "start", "loop", "abort" or "fail" (about to call tx.Rollback()),
              \*   "done" (Execute returned), "exited" (os.Exit(1))
  i,          \* 1-based position of the range loop over def.Operations
  reports,    \* the local slice `reports`
  ret,        \* what Execute returned: [reports, err]
  calls,      \* the calls made on database.DB and database.Transaction, in order
  outcomes,   \* what each executeOperation call of the loop returned, in order
  caller,     \* who called Execute: "runRun"; "api", a user of the package; or
              \* "background", a user that passes context.Background()
  dsn,        \* the DSN: DATABASE_DSN for runRun, the argument of NewDatabase for "api"
  ctxDone,    \* the ctx given to Execute has been cancelled
  events,     \* what runRun has written and sent, in order
  runErr,     \* the error runRun returned
  exitCode,   \* the exit code of the process, -1 while it runs
  vActual,    \* a validator or compareValues on its own: the argument actual
  vExpected,  \*   the argument expected
  vType,      \*   the argument opType of validateDMLResult
  vVerdict,   \*   what it returned
  vpc,        \*   "off", "call" (about to be called) or "ret" (returned)
  files,      \* LoadDefinitions: the definitions read from configPaths, in order
  loaded,     \*   what it returned: [def, err]
  lpc,        \*   "off", "call" or "ret"
  second      \* a second call of Execute, by another run: its own state

\* The state of Execute, of its caller runRun, and of a lone validator call.
execVars == <<mode, caller, dsn, ops, db, db0, txTable, txState, pc, i, reports, ret, calls,
              outcomes, ctxDone>>
callerVars == <<events, runErr, exitCode>>
valVars == <<vActual, vExpected, vType, vVerdict, vpc>>
loadVars == <<files, loaded, lpc>>

vars == <<execVars, callerVars, valVars, loadVars, second>>

\* Longest definition explored.
MaxOps == 3

\* A nil error.
NoError == "<nil>"

TypeSelect == "select"
TypeInsert == "insert"
TypeUpdate == "update"
TypeDelete == "delete"
AllowedTypes == {TypeSelect, TypeInsert, TypeUpdate, TypeDelete}
DMLTypes == {TypeInsert, TypeUpdate, TypeDelete}

(***************************************************************************)
(* The text of a statement is the sequence of its characters.  The model   *)
(* keeps the first keyword of a statement and leaves out the rest.         *)
(***************************************************************************)
SQLSelect == <<"S", "E", "L", "E", "C", "T">>
SQLInsert == <<"I", "N", "S", "E", "R", "T">>
SQLUpdate == <<"U", "P", "D", "A", "T", "E">>
SQLDelete == <<"D", "E", "L", "E", "T", "E">>
SQLTruncate == <<"T", "R", "U", "N", "C", "A", "T", "E">>
\* Two statements the database rejects.
SQLSelekt == <<"S", "E", "L", "E", "K", "T">>
SQLUpdaet == <<"U", "P", "D", "A", "E", "T">>

(***************************************************************************)
(* Texts.  A character that cannot be written in a string of the model is  *)
(* named by its code point ("U+00A0"), one element of the text as any      *)
(* other character.                                                        *)
(***************************************************************************)
\* unicode.IsSpace: the characters strings.TrimSpace removes.
Whitespace ==
  {" ", "\t", "\n", "\r", "\f", "U+000B", "U+0085", "U+00A0", "U+1680", "U+2000",
   "U+2001", "U+2002", "U+2003", "U+2004", "U+2005", "U+2006", "U+2007", "U+2008",
   "U+2009", "U+200A", "U+2028", "U+2029", "U+202F", "U+205F", "U+3000"}

\* strings.TrimSpace
TrimSpace(s) ==
  LET kept == {k \in 1..Len(s) : s[k] \notin Whitespace}
  IN IF kept = {} THEN <<>>
     ELSE SubSeq(s, CHOOSE k \in kept : \A j \in kept : k <= j,
                 CHOOSE k \in kept : \A j \in kept : j <= k)

LowerCase ==
  <<"a", "b", "c", "d", "e", "f", "g", "h", "i", "j", "k", "l", "m",
    "n", "o", "p", "q", "r", "s", "t", "u", "v", "w", "x", "y", "z">>

UpperCase ==
  <<"A", "B", "C", "D", "E", "F", "G", "H", "I", "J", "K", "L", "M",
    "N", "O", "P", "Q", "R", "S", "T", "U", "V", "W", "X", "Y", "Z">>

\* The letters outside ASCII that the texts of the model hold, each with
\* its upper case and its lower case (unicode.ToUpper, unicode.ToLower):
\* U+017F long s, U+0131 dotless i, U+00E9 and U+00C9 e with acute, U+212A
\* the Kelvin sign.
OtherLetters ==
  << <<"U+017F", "S", "U+017F">>, <<"U+0131", "I", "U+0131">>,
     <<"U+00E9", "U+00C9", "U+00E9">>, <<"U+00C9", "U+00C9", "U+00E9">>,
     <<"U+212A", "U+212A", "k">> >>

\* strings.ToUpper / strings.ToLower of one character: to = 2 for the upper
\* case, 3 for the lower case.
MapCase(c, to) ==
  LET from == IF to = 2 THEN LowerCase ELSE UpperCase
      into == IF to = 2 THEN UpperCase ELSE LowerCase
  IN IF \E j \in 1..Len(from) : from[j] = c
     THEN into[CHOOSE j \in 1..Len(from) : from[j] = c]
     ELSE IF \E j \in 1..Len(OtherLetters) : OtherLetters[j][1] = c
     THEN OtherLetters[CHOOSE j \in 1..Len(OtherLetters) : OtherLetters[j][1] = c][to]
     ELSE c

\* strings.ToUpper
ToUpper(s) == [k \in 1..Len(s) |-> MapCase(s[k], 2)]

\* strings.ToLower
ToLower(s) == [k \in 1..Len(s) |-> MapCase(s[k], 3)]

\* strings.HasPrefix
HasPrefix(s, prefix) ==
  Len(s) >= Len(prefix) /\ SubSeq(s, 1, Len(prefix)) = prefix

\* The text of a sequence of characters, for a message.
RECURSIVE Join(_)
Join(cs) == IF cs = <<>> THEN "" ELSE Head(cs) \o Join(Tail(cs))

\* strings.Index from position k (1-based) on: the position of the first
\* pat in s at or after k, or 0.
RECURSIVE IndexFrom(_, _, _)
IndexFrom(s, pat, k) ==
  IF k + Len(pat) - 1 > Len(s) THEN 0
  ELSE IF SubSeq(s, k, k + Len(pat) - 1) = pat THEN k
  ELSE IndexFrom(s, pat, k + 1)

(***************************************************************************)
(* Values held in interface{}: the value's dynamic type and its content.   *)
(***************************************************************************)
NilV == [t |-> "nil"]
Int64V(n) == [t |-> "int64", v |-> n]
IntV(n) == [t |-> "int", v |-> n]
StringV(s) == [t |-> "string", v |-> s]

BoolV(b) == [t |-> "bool", v |-> b]
\* A []byte, as the MySQL driver returns text: the sequence of its bytes.
BytesV(bs) == [t |-> "[]uint8", v |-> bs]

\* The elements of a []byte as fmt prints them, separated by spaces.
RECURSIVE SprintBytes(_)
SprintBytes(bs) ==
  IF bs = <<>> THEN ""
  ELSE IF Len(bs) = 1 THEN ToString(bs[1])
  ELSE ToString(bs[1]) \o " " \o SprintBytes(Tail(bs))

\* fmt.Sprintf("%v", x)
Sprint(x) ==
  CASE x.t = "nil" -> "<nil>"
    [] x.t = "int64" -> ToString(x.v)
    [] x.t = "int" -> ToString(x.v)
    [] x.t = "string" -> x.v
    [] x.t = "bool" -> IF x.v THEN "true" ELSE "false"
    [] x.t = "[]uint8" -> "[" \o SprintBytes(x.v) \o "]"

\* compareValues checking nil on actual alone.
compareValuesActualNil(actual, expected) ==
  IF actual.t = "nil" THEN expected.t = "nil"
  ELSE IF actual.t # expected.t THEN Sprint(actual) = Sprint(expected)
  ELSE actual = expected

\* compareValues returning false for values of different types.
compareValuesStrict(actual, expected) ==
  IF actual.t = "nil" /\ expected.t = "nil" THEN TRUE
  ELSE IF actual.t = "nil" \/ expected.t = "nil" THEN FALSE
  ELSE IF actual.t # expected.t THEN FALSE
  ELSE actual = expected

\* compareValues without its two checks of nil.
compareValuesNoNilCheck(actual, expected) ==
  IF actual.t # expected.t THEN Sprint(actual) = Sprint(expected)
  ELSE actual = expected

compareValues(actual, expected) ==
  IF actual.t = "nil" /\ expected.t = "nil" THEN TRUE
  ELSE IF actual.t = "nil" \/ expected.t = "nil" THEN FALSE
  ELSE IF actual.t # expected.t THEN Sprint(actual) = Sprint(expected)
  ELSE actual = expected

(***************************************************************************)
(* Operation Validator.  A Go map is ranged over in an unspecified order,  *)
(* so the column whose failure is reported is any failing column of the    *)
(* first failing row: the validators return the set of possible verdicts.  *)
(***************************************************************************)
Verdict(p, m) == [pass |-> p, message |-> m]

\* RowFailures without the check that the column exists in actualRow.
RowFailuresSkipMissing(actualRow, expectedRow, k) ==
  { Verdict(FALSE, "value mismatch in row " \o ToString(k) \o ", column '" \o key
                   \o "': expected " \o Sprint(expectedRow[key])
                   \o ", got " \o Sprint(actualRow[key])) :
      key \in {c \in DOMAIN expectedRow :
                 c \in DOMAIN actualRow /\ ~compareValues(actualRow[c], expectedRow[c])} }

\* RowFailures that also fails a row of actual with a column that
\* expectedRow does not declare.
RowFailuresExactShape(actualRow, expectedRow, k) ==
  { Verdict(FALSE, "missing column '" \o key \o "' in row " \o ToString(k)) :
      key \in {c \in DOMAIN expectedRow : c \notin DOMAIN actualRow} }
  \cup
  { Verdict(FALSE, "unexpected column '" \o key \o "' in row " \o ToString(k)) :
      key \in {c \in DOMAIN actualRow : c \notin DOMAIN expectedRow} }
  \cup
  { Verdict(FALSE, "value mismatch in row " \o ToString(k) \o ", column '" \o key
                   \o "': expected " \o Sprint(expectedRow[key])
                   \o ", got " \o Sprint(actualRow[key])) :
      key \in {c \in DOMAIN expectedRow :
                 c \in DOMAIN actualRow /\ ~compareValues(actualRow[c], expectedRow[c])} }

\* The verdicts the inner loop over expectedRow can return for row index k
\* (0-based as printed); empty when every declared column matches.
RowFailures(actualRow, expectedRow, k) ==
  { Verdict(FALSE, "missing column '" \o key \o "' in row " \o ToString(k)) :
      key \in {c \in DOMAIN expectedRow : c \notin DOMAIN actualRow} }
  \cup
  { Verdict(FALSE, "value mismatch in row " \o ToString(k) \o ", column '" \o key
                   \o "': expected " \o Sprint(expectedRow[key])
                   \o ", got " \o Sprint(actualRow[key])) :
      key \in {c \in DOMAIN expectedRow :
                 c \in DOMAIN actualRow /\ ~compareValues(actualRow[c], expectedRow[c])} }

\* validateSelectResult passing when the rows of actual match those of
\* expected in some order.
validateSelectResultAnyOrder(actual, expected) ==
  IF Len(actual) # Len(expected)
  THEN { Verdict(FALSE, "row count mismatch: expected " \o ToString(Len(expected))
                        \o ", got " \o ToString(Len(actual))) }
  ELSE IF \E p \in Permutations(1..Len(actual)) :
            \A k \in 1..Len(expected) : RowFailures(actual[p[k]], expected[k], k - 1) = {}
       THEN { Verdict(TRUE, "assertion passed") }
       ELSE LET bad == {k \in 1..Len(expected) :
                          RowFailures(actual[k], expected[k], k - 1) # {}}
                first == CHOOSE k \in bad : \A j \in bad : k <= j
            IN RowFailures(actual[first], expected[first], first - 1)

validateSelectResult(actual, expected) ==
  IF Len(actual) # Len(expected)
  THEN { Verdict(FALSE, "row count mismatch: expected " \o ToString(Len(expected))
                        \o ", got " \o ToString(Len(actual))) }
  ELSE LET bad == {k \in 1..Len(expected) :
                     RowFailures(actual[k], expected[k], k - 1) # {}}
       IN IF bad = {}
          THEN { Verdict(TRUE, "assertion passed") }
          ELSE LET first == CHOOSE k \in bad : \A j \in bad : k <= j
               IN RowFailures(actual[first], expected[first], first - 1)

\* validateDMLResult taking a missing entry for an expected count of 0.
validateDMLResultMissingZero(actual, expected, opType) ==
  LET expectedCount == IF opType \in DOMAIN expected THEN expected[opType] ELSE 0
  IN IF actual # expectedCount
     THEN Verdict(FALSE, "affected rows mismatch: expected " \o ToString(expectedCount)
                         \o ", got " \o ToString(actual))
     ELSE Verdict(TRUE, "assertion passed")

validateDMLResult(actual, expected, opType) ==
  IF opType \notin DOMAIN expected
  THEN Verdict(FALSE, "no expected count specified for operation type '" \o opType \o "'")
  ELSE IF actual # expected[opType]
  THEN Verdict(FALSE, "affected rows mismatch: expected " \o ToString(expected[opType])
                      \o ", got " \o ToString(actual))
  ELSE Verdict(TRUE, "assertion passed")

(***************************************************************************)
(* NewDatabase: the driver is read off the DSN.                            *)
(***************************************************************************)
\* The DSNs of the model: DATABASE_DSN not set; "postgres://db";
\* "POSTGRESQL://db", which detectDriver takes and lib/pq does not;
\* "mysql://u@tcp(h)/db"; "U@tcp(h)/db"; and "sqlite://DB", of a driver
\* opsql does not know.
DSNs ==
  [unset |-> <<>>,
   postgres |-> <<"p", "o", "s", "t", "g", "r", "e", "s", ":", "/", "/", "d", "b">>,
   postgresql |->
     <<"P", "O", "S", "T", "G", "R", "E", "S", "Q", "L", ":", "/", "/", "d", "b">>,
   mysql |-> <<"m", "y", "s", "q", "l", ":", "/", "/", "u", "@", "t", "c", "p", "(", "h", ")",
              "/", "d", "b">>,
   tcp |-> <<"U", "@", "t", "c", "p", "(", "h", ")", "/", "d", "b">>,
   sqlite |-> <<"s", "q", "l", "i", "t", "e", ":", "/", "/", "D", "B">>]

detectDriver(d) ==
  LET lower == ToLower(d)
  IN IF \/ HasPrefix(lower, <<"p", "o", "s", "t", "g", "r", "e", "s", ":", "/", "/">>)
        \/ HasPrefix(lower, <<"p", "o", "s", "t", "g", "r", "e", "s", "q", "l", ":", "/", "/">>)
     THEN [driver |-> "postgres", err |-> NoError]
     ELSE IF \/ HasPrefix(lower, <<"m", "y", "s", "q", "l", ":", "/", "/">>)
             \/ IndexFrom(lower, <<"@", "t", "c", "p", "(">>, 1) > 0
     THEN [driver |-> "mysql", err |-> NoError]
     ELSE [driver |-> "",
           err |-> "unsupported database driver in DSN: " \o Join(lower)]

\* The errors NewDatabase(d) can return for a DSN without white space and
\* "="; NoError is a connection.  The driver is given the DSN as it was
\* written, without "mysql://" for MySQL (convertDSN): lib/pq reads a DSN
\* that does not start with "postgres://" or "postgresql://" as a list of
\* settings, and the MySQL driver wants a "/" before the database name.
NewDatabaseResults(d) ==
  LET isURL ==
        \/ HasPrefix(d, <<"p", "o", "s", "t", "g", "r", "e", "s", ":", "/", "/">>)
        \/ HasPrefix(d, <<"p", "o", "s", "t", "g", "r", "e", "s", "q", "l", ":", "/", "/">>)
      connectionString ==
        IF HasPrefix(d, <<"m", "y", "s", "q", "l", ":", "/", "/">>)
        THEN SubSeq(d, 9, Len(d))
        ELSE d
  IN IF detectDriver(d).err # NoError THEN {detectDriver(d).err}
     ELSE IF detectDriver(d).driver = "postgres" /\ ~isURL
     THEN {"failed to connect to database: missing \"=\" after \"" \o Join(d)
             \o "\" in connection info string\""}
     ELSE IF detectDriver(d).driver = "mysql"
               /\ IndexFrom(connectionString, <<"/">>, 1) = 0
     THEN {"failed to connect to database: invalid DSN: missing the slash separating "
             \o "the database name"}
     ELSE {NoError, "failed to connect to database: connection refused"}

\* The driver field of the *Database that NewDatabase(d) returns.
Driver == [d \in {DSNs[k] : k \in DOMAIN DSNs} |-> detectDriver(d).driver]

(***************************************************************************)
(* The server.  Exec and QueryRows are a statement run on the table t it   *)
(* sees, in no transaction or in one that is alone on the table.           *)
(***************************************************************************)
\* ctx.Err() of a cancelled context, as the driver returns it.
Canceled == "context canceled"

\* A row that has been deleted.
Gone == -1

\* What a statement makes of a row it sees whose v is val.
RowAfter(sql, val) ==
  CASE sql = SQLUpdate -> 1
    [] sql = SQLDelete -> Gone
    [] OTHER -> val

\* The rows a statement adds.
Inserted(sql) == IF sql = SQLInsert THEN <<0>> ELSE <<>>

\* The rows left of rows.
Visible(rows) == SelectSeq(rows, LAMBDA val : val # Gone)

\* tx.ExecContext / db.ExecContext at the server: the table after the
\* statement, result.RowsAffected(), or the error.  For a SELECT the
\* rows are dropped: lib/pq reports their number, the MySQL driver 0.
\* For an UPDATE a PostgreSQL server reports the rows it matched; a MySQL
\* server the rows it changed, those whose v was not 1 yet, as convertDSN
\* asks for no clientFoundRows.
Exec(t, sql) ==
  IF sql \notin {SQLSelect, SQLInsert, SQLUpdate, SQLDelete}
  THEN [table |-> t, affected |-> 0, err |-> "syntax error"]
  ELSE [table |-> Visible([k \in 1..Len(t) |-> RowAfter(sql, t[k])]) \o Inserted(sql),
        affected |-> CASE sql = SQLInsert -> 1
                       [] sql = SQLSelect -> IF Driver[dsn] = "postgres" THEN Len(t) ELSE 0
                       [] sql = SQLUpdate ->
                            IF Driver[dsn] = "postgres" THEN Len(t)
                            ELSE Len(SelectSeq(t, LAMBDA val : val # 1))
                       [] OTHER -> Len(t),
        err |-> NoError]

\* tx.QueryxContext / db.QueryxContext at the server and the loop over
\* rows.Next(): the rows scanned and the table after the statement, or the
\* error.  A statement that returns no result set runs and gives no rows.
QueryRows(t, sql) ==
  IF Exec(t, sql).err # NoError
  THEN [rows |-> <<>>, table |-> t, err |-> Exec(t, sql).err]
  ELSE [rows |-> IF sql = SQLSelect THEN [k \in 1..Len(t) |-> [v |-> Int64V(t[k])]]
                 ELSE <<>>,
        table |-> Exec(t, sql).table,
        err |-> NoError]

(***************************************************************************)
(* A transaction, at READ COMMITTED with row locks as PostgreSQL runs it   *)
(* when BeginTxx is given nil options.  The handle h of a transaction is   *)
(* [rows, w]: rows is the table as committed now, and w what the           *)
(* transaction has written and not committed: w.upd[k] is what it has made *)
(* of row k of the table (Gone when it deleted the row), for the rows      *)
(* 1..Len(w.upd); w.ins are the rows it has added; w.failed says that a    *)
(* statement of it has failed at a PostgreSQL server, which then rejects   *)
(* every statement until the transaction ends.  Rows are added at the end  *)
(* of the table and a row is removed by the commit of the transaction that *)
(* deleted it, which no other transaction that holds rows outlasts: a      *)
(* statement that changes rows waits for the end of another transaction    *)
(* that has changed rows (Waits).  The statement has taken its snapshot    *)
(* when it starts to wait: w.wait is <<n>> while a statement of the        *)
(* transaction waits that saw the rows 1..n of the table, and <<>>         *)
(* otherwise.  When the wait is over the statement changes the rows of its *)
(* snapshot that are left, as they are committed by then, and no row       *)
(* committed since.                                                        *)
(***************************************************************************)
NoWrites == [upd |-> <<>>, ins |-> <<>>, failed |-> FALSE, wait |-> <<>>]

\* The table as a statement of the transaction sees it: its own version of
\* the rows it has changed, the other rows as committed, the rows it added.
View(h) ==
  LET seen == IF h.w.wait = <<>> THEN Len(h.rows) ELSE h.w.wait[1]
  IN (Visible(h.w.upd) \o SubSeq(h.rows, Len(h.w.upd) + 1, seen)) \o h.w.ins

\* What the transaction has written once statement sql has run in it.
WritesAfter(h, sql) ==
  LET seen == IF h.w.wait = <<>> THEN Len(h.rows) ELSE h.w.wait[1]
      last == IF seen > Len(h.w.upd) THEN seen ELSE Len(h.w.upd)
  IN [upd |-> IF sql \in {SQLUpdate, SQLDelete}
              THEN [k \in 1..last |->
                      LET cur == IF k <= Len(h.w.upd) THEN h.w.upd[k] ELSE h.rows[k]
                      IN IF cur = Gone THEN Gone ELSE RowAfter(sql, cur)]
              ELSE h.w.upd,
      ins |-> Visible([k \in 1..Len(h.w.ins) |-> RowAfter(sql, h.w.ins[k])])
                \o Inserted(sql),
      failed |-> FALSE,
      wait |-> <<>>]

\* What a transaction that has written w, a statement of it waiting or not,
\* holds once another transaction that had written done has committed: the
\* rows of its snapshot that the other deleted are gone.
AfterCommitOf(done, w) ==
  IF w.wait = <<>> THEN w
  ELSE LET n == w.wait[1]
       IN [w EXCEPT !.wait =
             << IF n <= Len(done.upd) THEN Len(Visible(SubSeq(done.upd, 1, n)))
                ELSE Len(Visible(done.upd)) + (n - Len(done.upd)) >>]

\* The errors of a call whose ctx is cancelled while its statement runs or
\* its rows are read.  lib/pq asks the server to cancel the statement and
\* returns the error of the server; database/sql ends the reading of rows
\* with ctx.Err(), which is what the MySQL driver returns throughout.
CancelledErrors ==
  IF Driver[dsn] = "postgres"
  THEN {"pq: canceling statement due to user request", Canceled}
  ELSE {Canceled}

\* Tx.QueryRowsContext(ctx, sql): the results the call can have.  ctx is
\* "live" when it is not cancelled before the call returns, "done" when it
\* was cancelled before the call, which then fails at once, and "cancelled"
\* when it is cancelled during the call: the call returns the rows it has
\* read with the error, and a PostgreSQL server has ended the statement
\* and fails the transaction.  After a statement of the transaction has
\* failed, a PostgreSQL server rejects every statement until the
\* transaction ends; a MySQL server goes on.
QueryRowsContext(ctx, h, sql) ==
  IF ctx = "done" THEN {[rows |-> <<>>, table |-> h, err |-> Canceled]}
  ELSE IF h.w.failed
  THEN {[rows |-> <<>>, table |-> h,
         err |-> "pq: current transaction is aborted, commands ignored until end of "
                   \o "transaction block"]}
  ELSE LET Result(q) ==
             IF ctx = "cancelled"
             THEN { [rows |-> SubSeq(q.rows, 1, n),
                     table |-> IF err = Canceled THEN h ELSE [h EXCEPT !.w.failed = TRUE],
                     err |-> err] :
                      n \in 0..Len(q.rows), err \in CancelledErrors }
             ELSE IF q.err # NoError
             THEN {[rows |-> <<>>,
                    table |-> [h EXCEPT !.w.failed = (Driver[dsn] = "postgres")],
                    err |-> q.err]}
             ELSE {[rows |-> q.rows, table |-> [rows |-> h.rows, w |-> WritesAfter(h, sql)],
                    err |-> NoError]}
       IN Result(QueryRows(View(h), sql))

\* Tx.ExecContext(ctx, sql): as Tx.QueryRowsContext; a call whose ctx is
\* cancelled while the statement runs returns 0 and the error.
ExecContext(ctx, h, sql) ==
  IF ctx = "done" THEN {[table |-> h, affected |-> 0, err |-> Canceled]}
  ELSE IF h.w.failed
  THEN {[table |-> h, affected |-> 0,
         err |-> "pq: current transaction is aborted, commands ignored until end of "
                   \o "transaction block"]}
  ELSE IF ctx = "cancelled"
  THEN { [table |-> IF err = Canceled THEN h ELSE [h EXCEPT !.w.failed = TRUE],
          affected |-> 0, err |-> err] :
           err \in IF Driver[dsn] = "postgres" THEN CancelledErrors \ {Canceled}
                   ELSE CancelledErrors }
  ELSE LET Result(x) ==
             IF x.err # NoError
             THEN {[table |-> [h EXCEPT !.w.failed = (Driver[dsn] = "postgres")],
                    affected |-> 0, err |-> x.err]}
             ELSE {[table |-> [rows |-> h.rows, w |-> WritesAfter(h, sql)],
                    affected |-> x.affected, err |-> NoError]}
       IN Result(Exec(View(h), sql))

\* The statement of operation op, issued on a transaction that has written
\* w, waits for a row lock while another transaction that has written other
\* is open: UPDATE and DELETE lock the rows they change until the
\* transaction ends; INSERT and SELECT wait for nothing.
Waits(op, w, other) ==
  /\ op.Type \in AllowedTypes
  /\ op.SQL \in {SQLUpdate, SQLDelete}
  /\ ~w.failed
  /\ other.upd # <<>>

(***************************************************************************)
(* Operation Executor, given the ctx as it is during the call ("live",     *)
(* "done" or "cancelled", as for Tx.QueryRowsContext), the transaction tx  *)
(* and its handle t.  Each operator returns the set of possible outcomes:  *)
(*   report     <<r>>, or <<>> for a nil *Report                           *)
(*   err        the error returned                                         *)
(*   table      the handle of the transaction afterwards                   *)
(*   port       the Port calls made, in order                              *)
(*   validated  whether the Operation Validator was invoked                *)
(***************************************************************************)
\* The Result of a Report: nil, the rows of a query, or a count of rows.
\* QueryRowsContext appends the rows it scans to a nil slice, so the rows
\* of a query that returned none are a nil slice: RowsResult(<<>>) is a
\* Result that is not nil and holds a nil slice.
NilResult == [kind |-> "nil"]
RowsResult(rows) == [kind |-> "rows", rows |-> rows]
CountResult(n) == [kind |-> "int64", n |-> n]

\* What json.MarshalIndent writes for the Result of a Report, null being
\* NilResult: null for a nil Result and for a nil slice of rows, the rows
\* or the count otherwise.
MarshalResult(result) == IF result = RowsResult(<<>>) THEN NilResult ELSE result

\* A Report whose Pass is true whatever happened.
ReportPassed(op, result, pass, message) ==
  [ID |-> op.ID, Description |-> op.Description, Type |-> op.Type,
   Result |-> result, Pass |-> TRUE, Message |-> message]

\* A Report that does not copy the Description of the Operation.
ReportNoDescription(op, result, pass, message) ==
  [ID |-> op.ID, Description |-> "", Type |-> op.Type,
   Result |-> result, Pass |-> pass, Message |-> message]

Report(op, result, pass, message) ==
  [ID |-> op.ID, Description |-> op.Description, Type |-> op.Type,
   Result |-> result, Pass |-> pass, Message |-> message]

Outcome(report, err, table, port, validated) ==
  [report |-> report, err |-> err, table |-> table, port |-> port,
   validated |-> validated]

PortCall(name, tx, err) == [call |-> name, tx |-> tx, err |-> err]

\* executeSelect returning a nil error with a failed assertion.
executeSelectNilErr(ctx, tx, t, op) ==
  LET After(q) ==
        IF q.err # NoError
        THEN { Outcome(<<Report(op, NilResult, FALSE, "query failed: " \o q.err)>>,
                       NoError, q.table, <<PortCall("query", tx, q.err)>>, FALSE) }
        ELSE { Outcome(<<Report(op, RowsResult(q.rows), vd.pass, vd.message)>>,
                       NoError, q.table, <<PortCall("query", tx, NoError)>>, TRUE) :
                 vd \in validateSelectResult(q.rows, op.Expected) }
  IN UNION { After(q) : q \in QueryRowsContext(ctx, t, op.SQL) }

\* executeSelect rolling the transaction back itself when the query fails.
executeSelectRollback(ctx, tx, t, op) ==
  LET After(q) ==
        IF q.err # NoError
        THEN { Outcome(<<Report(op, NilResult, FALSE, "query failed: " \o q.err)>>,
                       NoError, q.table,
                       <<PortCall("query", tx, q.err), PortCall("rollback", tx, NoError)>>,
                       FALSE) }
        ELSE { Outcome(<<Report(op, RowsResult(q.rows), vd.pass, vd.message)>>,
                       IF ~vd.pass THEN "assertion failed: " \o vd.message ELSE NoError,
                       q.table, <<PortCall("query", tx, NoError)>>, TRUE) :
                 vd \in validateSelectResult(q.rows, op.Expected) }
  IN UNION { After(q) : q \in QueryRowsContext(ctx, t, op.SQL) }

\* executeSelect: the rows that come with an error are dropped.
executeSelect(ctx, tx, t, op) ==
  LET After(q) ==
        IF q.err # NoError
        THEN { Outcome(<<Report(op, NilResult, FALSE, "query failed: " \o q.err)>>,
                       NoError, q.table, <<PortCall("query", tx, q.err)>>, FALSE) }
        ELSE { Outcome(<<Report(op, RowsResult(q.rows), vd.pass, vd.message)>>,
                       IF ~vd.pass THEN "assertion failed: " \o vd.message ELSE NoError,
                       q.table, <<PortCall("query", tx, NoError)>>, TRUE) :
                 vd \in validateSelectResult(q.rows, op.Expected) }
  IN UNION { After(q) : q \in QueryRowsContext(ctx, t, op.SQL) }

\* executeDML without the check of the error of tx.ExecContext.
executeDMLNoErrCheck(ctx, tx, t, op) ==
  LET After(x) ==
        LET vd == validateDMLResult(x.affected, op.ExpectedChanges, op.Type)
        IN Outcome(<<Report(op, CountResult(x.affected), vd.pass, vd.message)>>,
                   NoError, x.table, <<PortCall("exec", tx, x.err)>>, TRUE)
  IN { After(x) : x \in ExecContext(ctx, t, op.SQL) }

\* executeDML running its statement in a transaction of its own, begun on
\* e.db and rolled back on return.
executeDMLOwnTx(ctx, tx, t, op) ==
  LET own == tx + 1
      After(x) ==
        IF x.err # NoError
        THEN Outcome(<<Report(op, NilResult, FALSE, "execution failed: " \o x.err)>>,
                     NoError, t,
                     <<PortCall("begin", own, NoError), PortCall("exec", own, x.err),
                       PortCall("rollback", own, NoError)>>, FALSE)
        ELSE LET vd == validateDMLResult(x.affected, op.ExpectedChanges, op.Type)
             IN Outcome(<<Report(op, CountResult(x.affected), vd.pass, vd.message)>>,
                        NoError, t,
                        <<PortCall("begin", own, NoError), PortCall("exec", own, NoError),
                          PortCall("rollback", own, NoError)>>, TRUE)
  IN { After(x) : x \in ExecContext(ctx, t, op.SQL) }

executeDML(ctx, tx, t, op) ==
  LET After(x) ==
        IF x.err # NoError
        THEN Outcome(<<Report(op, NilResult, FALSE, "execution failed: " \o x.err)>>,
                     NoError, x.table, <<PortCall("exec", tx, x.err)>>, FALSE)
        ELSE LET vd == validateDMLResult(x.affected, op.ExpectedChanges, op.Type)
             IN Outcome(<<Report(op, CountResult(x.affected), vd.pass, vd.message)>>,
                        NoError, x.table, <<PortCall("exec", tx, NoError)>>, TRUE)
  IN { After(x) : x \in ExecContext(ctx, t, op.SQL) }

\* executeOperation sending every type that is not select to executeDML.
executeOperationDefaultDML(ctx, tx, t, op) ==
  CASE op.Type = TypeSelect -> executeSelect(ctx, tx, t, op)
    [] OTHER -> executeDML(ctx, tx, t, op)

executeOperation(ctx, tx, t, op) ==
  CASE op.Type = TypeSelect -> executeSelect(ctx, tx, t, op)
    [] op.Type \in DMLTypes -> executeDML(ctx, tx, t, op)
    [] OTHER -> { Outcome(<<>>, "unsupported operation type: " \o op.Type, t, <<>>, FALSE) }

(***************************************************************************)
(* Definition loader.  A Definition is [Version, Params, Operations]; the  *)
(* loaders return [def, err], def being NilDefinition when err is not nil. *)
(***************************************************************************)
\* Params is a map from the text of a key to the text of its value.
NoParams == [x \in {} |-> <<>>]

\* Stands for the nil *Definition returned with an error.
NilDefinition == [Version |-> 0, Params |-> NoParams, Operations |-> <<>>]

\* DetectSQLType without strings.ToUpper.
DetectSQLTypeCaseSensitive(sql) ==
  LET normalized == TrimSpace(sql)
  IN IF HasPrefix(normalized, SQLSelect) THEN TypeSelect
     ELSE IF HasPrefix(normalized, SQLInsert) THEN TypeInsert
     ELSE IF HasPrefix(normalized, SQLUpdate) THEN TypeUpdate
     ELSE IF HasPrefix(normalized, SQLDelete) THEN TypeDelete
     ELSE ""

DetectSQLType(sql) ==
  LET normalized == ToUpper(TrimSpace(sql))
  IN IF HasPrefix(normalized, SQLSelect) THEN TypeSelect
     ELSE IF HasPrefix(normalized, SQLInsert) THEN TypeInsert
     ELSE IF HasPrefix(normalized, SQLUpdate) THEN TypeUpdate
     ELSE IF HasPrefix(normalized, SQLDelete) THEN TypeDelete
     ELSE ""

\* The explicit IDs of a slice of operations.
ExplicitIDs(operations) ==
  { operations[k].ID : k \in {j \in 1..Len(operations) : operations[j].ID # ""} }

\* The first operation_N, N = 0, 1, ..., that is not in existingIDs.
NextOperationID(existingIDs) ==
  LET free(n) == ("operation_" \o ToString(n)) \notin existingIDs
      idIndex == CHOOSE n \in 0..Cardinality(existingIDs) :
                   free(n) /\ \A m \in 0..(n - 1) : ~free(m)
  IN "operation_" \o ToString(idIndex)

\* The second loop of Validate from index k (1-based) on: the operations as
\* it has rewritten them when it returns, and the error it returns.
RECURSIVE ValidateOperations(_, _, _)
ValidateOperations(operations, k, existingIDs) ==
  IF k > Len(operations) THEN [ops |-> operations, err |-> NoError]
  ELSE
    LET op == operations[k]
        opID == IF op.ID = "" THEN NextOperationID(existingIDs) ELSE op.ID
        opType == IF op.Type = "" THEN DetectSQLType(op.SQL) ELSE op.Type
        withID == [operations EXCEPT ![k].ID = opID]
        withType == [withID EXCEPT ![k].Type = opType]
    IN IF op.SQL = <<>>
       THEN [ops |-> operations,
             err |-> "operation[" \o ToString(k - 1) \o "]: sql is required"]
       ELSE IF opType = ""
       THEN [ops |-> withID,
             err |-> "operation[" \o opID
                       \o "]: unable to detect SQL type from query"]
       ELSE IF opType \notin AllowedTypes
       THEN [ops |-> withType,
             err |-> "operation[" \o opID \o "]: unsupported type: " \o opType
                       \o " (allowed: [select insert update delete])"]
       ELSE IF opType = TypeSelect /\ Len(op.Expected) = 0
       THEN [ops |-> withType,
             err |-> "operation[" \o opID \o "]: expected is required for SELECT"]
       ELSE IF opType # TypeSelect /\ DOMAIN op.ExpectedChanges = {}
       THEN [ops |-> withType,
             err |-> "operation[" \o opID \o "]: expected_changes is required for DML"]
       ELSE ValidateOperations(withType, k + 1, existingIDs \cup {opID})

\* (d *Definition).Validate: d as it leaves it, and the error.
Validate(d) ==
  IF d.Version # 1 /\ d.Version # 0
  THEN [def |-> d, err |-> "unsupported version: " \o ToString(d.Version)]
  ELSE LET r == ValidateOperations(d.Operations, 1, ExplicitIDs(d.Operations))
       IN [def |-> [d EXCEPT !.Operations = r.ops], err |-> r.err]

(***************************************************************************)
(* text/template, as ProcessTemplates uses it: template.New(opID).Parse    *)
(* and Execute on map[string]interface{}{"params": d.Params}.  The texts   *)
(* read are those of this part of the template language: text; comments;   *)
(* the trim markers "{{- " and " -}}"; and actions of one operand, which   *)
(* is a chain of fields (".params.key"), the dot, a string constant        *)
(* without a backslash, a decimal integer, or the name of a function that  *)
(* is not defined; with the errors of the lexer and the parser on these:   *)
(* an action or a comment that is not closed, an empty action, a string    *)
(* that is not ended, and a dot or a number that follows an operand.  On   *)
(* any other text (functions that are defined, pipelines, variables,       *)
(* control structures, several operands) TemplateParse has no value.       *)
(***************************************************************************)
\* The names of a chain of fields, in order; none for ".".
RECURSIVE FieldNames(_)
FieldNames(body) ==
  IF Len(body) <= 1 THEN <<>>
  ELSE LET rest == Tail(body)
           dot == IndexFrom(rest, <<".">>, 1)
       IN IF dot = 0 THEN <<rest>>
          ELSE <<SubSeq(rest, 1, dot - 1)>> \o FieldNames(SubSeq(rest, dot, Len(rest)))

\* Template.Parse of text s from position from on, for the template name:
\* the nodes in order, or the error.  A text node holds its text, the node
\* of a constant the text it prints; the node of a chain of fields holds
\* its names, its text, and the line and column text/template names in an
\* error of its evaluation (Tree.ErrorContext): the line of the position of
\* the node, which is that of the second field of a chain, and the number
\* of bytes before it in its line.  The error of the parser names the line
\* of the last token read.
RECURSIVE TemplateParse(_, _, _)
TemplateParse(name, s, from) ==
  LET Space == {" ", "\t", "\r", "\n"}
      Digit == {"0", "1", "2", "3", "4", "5", "6", "7", "8", "9"}
      Letter == {UpperCase[k] : k \in 1..Len(UpperCase)}
                  \cup {LowerCase[k] : k \in 1..Len(LowerCase)}
                  \cup {OtherLetters[k][1] : k \in 1..Len(OtherLetters)} \cup {"_"}
      Predefined ==
        {"block", "break", "continue", "define", "else", "end", "if", "range", "nil",
         "template", "with", "true", "false", "and", "call", "html", "index", "slice",
         "js", "len", "not", "or", "print", "printf", "println", "urlquery", "eq", "ge",
         "gt", "le", "lt", "ne"}
      At(k, pat) == k + Len(pat) - 1 <= Len(s) /\ SubSeq(s, k, k + Len(pat) - 1) = pat
      Is(k, set) == k <= Len(s) /\ s[k] \in set
      Skip(k, set) ==
        CHOOSE e \in k..(Len(s) + 1) : ~Is(e, set) /\ \A j \in k..(e - 1) : s[j] \in set
      LineOf(k) == 1 + Cardinality({j \in 1..(k - 1) : j <= Len(s) /\ s[j] = "\n"})
      ByteLen(c) ==
        CASE c \in {"U+0085", "U+00A0", "U+00C9", "U+00E9", "U+0131", "U+017F"} -> 2
          [] c \in (Whitespace \ {" ", "\t", "\n", "\r", "\f", "U+000B", "U+0085", "U+00A0"})
                    \cup {"U+212A"} -> 3
          [] OTHER -> 1
      ColumnOf(k) ==
        LET inLine == {j \in 1..(k - 1) : \A m \in j..(k - 1) : s[m] # "\n"}
        IN Cardinality(inLine) + Cardinality({j \in inLine : ByteLen(s[j]) >= 2})
             + Cardinality({j \in inLine : ByteLen(s[j]) = 3})
      Quoted(text) ==
        IF Len(text) > 10 THEN "\"" \o Join(SubSeq(text, 1, 10)) \o "\"..."
        ELSE "\"" \o Join(text) \o "\""
      Outside == CHOOSE none \in {} : TRUE
      Fail(line, msg) ==
        [nodes |-> <<>>, err |-> "template: " \o name \o ":" \o ToString(line) \o ": " \o msg]
      StartedAt(open, line, inAction) ==
        IF line = LineOf(open) THEN ""
        ELSE inAction \o " started at " \o name \o ":" \o ToString(LineOf(open))
      Unclosed(open, line) == Fail(line, "unclosed action" \o StartedAt(open, line, ""))
      Terminator(k) ==
        k > Len(s) \/ s[k] \in Space \cup {".", ",", "|", ":", ")", "("} \/ At(k, <<"}", "}">>)
      Closes(k, after) ==
        At(k, <<"}", "}">>) \/ (k > after /\ Is(k, {"-"}) /\ At(k + 1, <<"}", "}">>))
      Continue(prior, nodes, k) ==
        LET After(rest) ==
              IF rest.err # NoError THEN rest
              ELSE [nodes |-> (prior \o nodes) \o rest.nodes, err |-> NoError]
        IN After(TemplateParse(name, s, IF At(k, <<"}", "}">>) THEN k + 2
                                        ELSE Skip(k + 3, Space)))
      Number(open, r, d) ==
        IF Is(d, Letter \ {"e", "E", "i", "_"})
        THEN Fail(LineOf(r), "bad number syntax: \"" \o Join(SubSeq(s, r, d)) \o "\""
                               \o StartedAt(open, LineOf(r), " in action"))
        ELSE IF Is(d, {"e", "E", "i", "_", "+", "-"}) THEN Outside
        ELSE Fail(LineOf(r), "unexpected " \o Quoted(SubSeq(s, r, d - 1)) \o " in operand")
      Next(open, prior, node, r, q) ==
        IF q > Len(s) THEN Unclosed(open, LineOf(q))
        ELSE IF Closes(q, r) THEN Continue(prior, <<node>>, q)
        ELSE IF q > r \/ s[r] # "." \/ r = Len(s) THEN Outside
        ELSE IF Is(r + 1, Digit) THEN Number(open, r, Skip(r + 1, Digit))
        ELSE IF Terminator(r + 1) THEN Fail(LineOf(r), "unexpected <.> in operand")
        ELSE Outside
      Follow(open, prior, node, r) == Next(open, prior, node, r, Skip(r, Space))
      Comment(open, prior, start, x) ==
        IF x = 0 THEN Fail(LineOf(start), "unclosed comment")
        ELSE IF Is(x + 2, Space) /\ Is(x + 3, {"-"}) /\ At(x + 4, <<"}", "}">>)
        THEN Continue(prior, <<>>, x + 3)
        ELSE IF At(x + 2, <<"}", "}">>) THEN Continue(prior, <<>>, x + 2)
        ELSE Fail(LineOf(start), "comment ends before closing delimiter")
      Field(chain, at) ==
        [node |-> "field", names |-> FieldNames(chain), text |-> chain,
         line |-> LineOf(at), column |-> ColumnOf(at)]
      Chain(open, prior, q, e) ==
        LET After(chain, next) ==
              Follow(open, prior, Field(chain, IF next = 0 THEN q ELSE q + next - 1), e)
        IN IF ~Terminator(e) THEN Outside
           ELSE After(SubSeq(s, q, e - 1), IndexFrom(SubSeq(s, q, e - 1), <<".">>, 2))
      String(open, prior, q, e) ==
        IF e > Len(s) \/ s[e] = "\n"
        THEN Fail(LineOf(q), "unterminated quoted string"
                               \o StartedAt(open, LineOf(q), " in action"))
        ELSE IF s[e] = "\\" THEN Outside
        ELSE Follow(open, prior, [node |-> "string", text |-> SubSeq(s, q + 1, e - 1)], e + 1)
      Integer(open, prior, q, e) ==
        IF \/ (s[q] = "0" /\ e > q + 1)
           \/ e - q > 18
           \/ Is(e, Letter \cup {".", "+", "-"})
        THEN Outside
        ELSE Follow(open, prior, [node |-> "number", text |-> SubSeq(s, q, e - 1)], e)
      Word(q, e) ==
        IF ~Terminator(e) \/ Join(SubSeq(s, q, e - 1)) \in Predefined THEN Outside
        ELSE Fail(LineOf(q), "function \"" \o Join(SubSeq(s, q, e - 1)) \o "\" not defined")
      Part(q, k) == (s[k] = "." /\ Is(k + 1, Letter)) \/ (k > q /\ s[k] \in Letter \cup Digit)
      Action(open, prior, start, q) ==
        IF q > Len(s) THEN Unclosed(open, LineOf(q))
        ELSE IF Closes(q, start) THEN Fail(LineOf(q), "missing value for command")
        ELSE IF s[q] = "." /\ Is(q + 1, Letter)
        THEN Chain(open, prior, q,
                   CHOOSE e \in (q + 1)..(Len(s) + 1) :
                     (e > Len(s) \/ ~Part(q, e)) /\ \A k \in q..(e - 1) : Part(q, k))
        ELSE IF s[q] = "."
        THEN IF q = Len(s) \/ ~Terminator(q + 1) THEN Outside
             ELSE Follow(open, prior, Field(<<".">>, q), q + 1)
        ELSE IF s[q] = "\""
        THEN String(open, prior, q,
                    CHOOSE e \in (q + 1)..(Len(s) + 1) :
                      /\ e > Len(s) \/ s[e] \in {"\"", "\n", "\\"}
                      /\ \A k \in (q + 1)..(e - 1) : s[k] \notin {"\"", "\n", "\\"})
        ELSE IF s[q] \in Digit THEN Integer(open, prior, q, Skip(q, Digit))
        ELSE IF s[q] \in Letter THEN Word(q, Skip(q, Letter \cup Digit))
        ELSE Outside
      Text(first, last) ==
        IF last < first THEN <<>> ELSE <<[node |-> "text", text |-> SubSeq(s, first, last)]>>
      Open(open, trimmed) ==
        LET Inside(prior, start) ==
              IF At(start, <<"/", "*">>)
              THEN Comment(open, prior, start, IndexFrom(s, <<"*", "/">>, start + 2))
              ELSE Action(open, prior, start, Skip(start, Space))
        IN Inside(IF trimmed
                  THEN Text(from, Cardinality({j \in from..(open - 1) :
                                                 \E m \in j..(open - 1) : s[m] \notin Space})
                                    + from - 1)
                  ELSE Text(from, open - 1),
                  IF trimmed THEN open + 4 ELSE open + 2)
      Parse(open) ==
        IF open = 0 THEN [nodes |-> Text(from, Len(s)), err |-> NoError]
        ELSE Open(open, Is(open + 2, {"-"}) /\ Is(open + 3, Space))
  IN Parse(IndexFrom(s, <<"{", "{">>, from))

\* a sorts before b: the order in which fmt prints the keys of a map.
RECURSIVE KeyLess(_, _)
KeyLess(a, b) ==
  LET Alphabet ==
        (<<"0", "1", "2", "3", "4", "5", "6", "7", "8", "9">> \o UpperCase)
          \o (<<"_">> \o LowerCase)
      rank(c) == CHOOSE k \in 1..Len(Alphabet) : Alphabet[k] = c
  IN IF a = <<>> THEN b # <<>>
     ELSE IF b = <<>> THEN FALSE
     ELSE IF Head(a) = Head(b) THEN KeyLess(Tail(a), Tail(b))
     ELSE rank(Head(a)) < rank(Head(b))

\* fmt's text of a map[string]string: "map[k1:v1 k2:v2]", keys sorted.
RECURSIVE MapEntries(_, _)
MapEntries(params, keys) ==
  IF keys = {} THEN <<>>
  ELSE LET key == CHOOSE k \in keys : \A other \in keys \ {k} : KeyLess(k, other)
           more == MapEntries(params, keys \ {key})
       IN ((key \o <<":">>) \o params[key]) \o (IF more = <<>> THEN <<>> ELSE <<" ">> \o more)

\* The evaluation of a chain of fields on the data of ProcessTemplates: the
\* text printed, or the error.  The template has the option missingkey at
\* its default, so a key that is missing in a map, in the data as in params,
\* gives no value, printed "<no value>", and so does every field of no
\* value; a field of a string, the value of a key of params, is an error.
EvalField(names, params) ==
  LET MapText ==
        (<<"m", "a", "p", "[">> \o MapEntries(params, DOMAIN params)) \o <<"]">>
      NoValue == <<"<", "n", "o", " ", "v", "a", "l", "u", "e", ">">>
      ParamsField == <<"p", "a", "r", "a", "m", "s">>
  IN IF names = <<>>
     THEN [text |-> (<<"m", "a", "p", "[">> \o ParamsField \o <<":">> \o MapText)
                      \o <<"]">>,
           err |-> NoError]
     ELSE IF names[1] # ParamsField THEN [text |-> NoValue, err |-> NoError]
     ELSE IF Len(names) = 1 THEN [text |-> MapText, err |-> NoError]
     ELSE IF names[2] \notin DOMAIN params THEN [text |-> NoValue, err |-> NoError]
     ELSE IF Len(names) = 2 THEN [text |-> params[names[2]], err |-> NoError]
     ELSE [text |-> <<>>,
           err |-> "can't evaluate field " \o Join(names[3]) \o " in type string"]

\* Template.Execute from node k on: the text written, or the error.
RECURSIVE TemplateExecute(_, _, _, _)
TemplateExecute(name, nodes, k, params) ==
  IF k > Len(nodes) THEN [text |-> <<>>, err |-> NoError]
  ELSE LET n == nodes[k]
           v == IF n.node = "field" THEN EvalField(n.names, params)
                ELSE [text |-> n.text, err |-> NoError]
       IN IF v.err # NoError
          THEN [text |-> <<>>,
                err |-> "template: " \o name \o ":" \o ToString(n.line) \o ":"
                          \o ToString(n.column) \o ": executing \"" \o name \o "\" at <"
                          \o Join(n.text) \o ">: " \o v.err]
          ELSE LET rest == TemplateExecute(name, nodes, k + 1, params)
               IN IF rest.err # NoError THEN rest
                  ELSE [text |-> v.text \o rest.text, err |-> NoError]

\* The loop of ProcessTemplates from operation k (1-based) on: the
\* operations as it has rewritten them when it returns, and the error.
RECURSIVE ProcessOperations(_, _, _)
ProcessOperations(operations, k, params) ==
  IF k > Len(operations) THEN [ops |-> operations, err |-> NoError]
  ELSE LET op == operations[k]
           opID == IF op.ID = "" THEN "operation_" \o ToString(k - 1) ELSE op.ID
           Executed(out) ==
             IF out.err # NoError
             THEN [ops |-> operations,
                   err |-> "operation[" \o opID \o "]: failed to execute SQL template: "
                             \o out.err]
             ELSE ProcessOperations([operations EXCEPT ![k].SQL = out.text], k + 1, params)
           Parsed(tmpl) ==
             IF tmpl.err # NoError
             THEN [ops |-> operations,
                   err |-> "operation[" \o opID \o "]: failed to parse SQL template: "
                             \o tmpl.err]
             ELSE Executed(TemplateExecute(opID, tmpl.nodes, 1, params))
       IN Parsed(TemplateParse(opID, op.SQL, 1))

\* (d *Definition).ProcessTemplates: d as it leaves it, and the error.
ProcessTemplates(d) ==
  LET Processed(r) == [def |-> [d EXCEPT !.Operations = r.ops], err |-> r.err]
  IN Processed(ProcessOperations(d.Operations, 1, d.Params))

\* MergeOperations checking the ids of additional against those of base
\* alone: existingIDs is not added to.
RECURSIVE MergeOperationsBaseIDs(_, _, _, _)
MergeOperationsBaseIDs(baseOps, additionalOps, k, existingIDs) ==
  IF k > Len(additionalOps) THEN [ops |-> baseOps, err |-> NoError]
  ELSE LET op == additionalOps[k]
       IN IF op.ID # "" /\ op.ID \in existingIDs
          THEN [ops |-> baseOps, err |-> "duplicate operation ID: " \o op.ID]
          ELSE MergeOperationsBaseIDs(Append(baseOps, op), additionalOps, k + 1,
                                      existingIDs)

\* The loop of mergeDefinitions over additional.Operations from index k on.
RECURSIVE MergeOperations(_, _, _, _)
MergeOperations(baseOps, additionalOps, k, existingIDs) ==
  IF k > Len(additionalOps) THEN [ops |-> baseOps, err |-> NoError]
  ELSE LET op == additionalOps[k]
       IN IF op.ID # "" /\ op.ID \in existingIDs
          THEN [ops |-> baseOps, err |-> "duplicate operation ID: " \o op.ID]
          ELSE MergeOperations(Append(baseOps, op), additionalOps, k + 1,
                               IF op.ID # "" THEN existingIDs \cup {op.ID}
                               ELSE existingIDs)

\* mergeDefinitions(base, additional): base as it leaves it, and the error.
mergeDefinitions(base, additional) ==
  IF base.Version # additional.Version
  THEN [def |-> base,
        err |-> "version mismatch: base has version " \o ToString(base.Version)
                  \o ", additional has version " \o ToString(additional.Version)]
  ELSE LET params == [key \in (DOMAIN base.Params) \cup (DOMAIN additional.Params) |->
                        IF key \in DOMAIN additional.Params
                        THEN additional.Params[key]
                        ELSE base.Params[key]]
           r == MergeOperations(base.Operations, additional.Operations, 1,
                                ExplicitIDs(base.Operations))
       IN [def |-> [Version |-> base.Version, Params |-> params, Operations |-> r.ops],
           err |-> r.err]

\* A configuration file: the error of os.ReadFile on its path, the error of
\* yaml.Unmarshal on its content, and the Definition it decodes to.
FileOf(read, err, def) == [read |-> read, err |-> err, def |-> def]

\* A file that can be read.
File(err, def) == FileOf(NoError, err, def)

ConfigPath(k) == "config" \o ToString(k) \o ".yaml"

\* LoadDefinitionRaw(configPath), f being the file at configPath.
LoadDefinitionRaw(configPath, f) ==
  IF f.read # NoError
  THEN [def |-> NilDefinition,
        err |-> "failed to read config file: " \o configPath \o " open " \o configPath
                  \o ": " \o f.read]
  ELSE IF f.err # NoError
  THEN [def |-> NilDefinition, err |-> "failed to parse YAML: " \o f.err]
  ELSE [def |-> f.def, err |-> NoError]

\* Validate, then ProcessTemplates, as both loaders end.
ValidateAndProcess(d) ==
  LET Processed(t) == IF t.err # NoError THEN [def |-> NilDefinition, err |-> t.err] ELSE t
      Validated(v) ==
        IF v.err # NoError THEN [def |-> NilDefinition, err |-> v.err]
        ELSE Processed(ProcessTemplates(v.def))
  IN Validated(Validate(d))

LoadDefinition(configPath, f) ==
  LET raw == LoadDefinitionRaw(configPath, f)
  IN IF raw.err # NoError THEN raw ELSE ValidateAndProcess(raw.def)

\* The loop of LoadDefinitions from file k (1-based) on, mergedDef being
\* merged so far; file k is at ConfigPath(k).
RECURSIVE MergeFiles(_, _, _)
MergeFiles(fs, k, merged) ==
  IF k > Len(fs) THEN [def |-> merged, err |-> NoError]
  ELSE LET raw == LoadDefinitionRaw(ConfigPath(k), fs[k])
       IN IF raw.err # NoError
          THEN [def |-> NilDefinition,
                err |-> "failed to load config file " \o ConfigPath(k) \o ": " \o raw.err]
          ELSE IF k = 1 THEN MergeFiles(fs, k + 1, raw.def)
          ELSE LET m == mergeDefinitions(merged, raw.def)
               IN IF m.err # NoError
                  THEN [def |-> NilDefinition,
                        err |-> "failed to merge config file " \o ConfigPath(k)
                                  \o ": " \o m.err]
                  ELSE MergeFiles(fs, k + 1, m.def)

LoadDefinitions(fs) ==
  IF Len(fs) = 0
  THEN [def |-> NilDefinition, err |-> "no configuration files specified"]
  ELSE IF Len(fs) = 1 THEN LoadDefinition(ConfigPath(1), fs[1])
  ELSE LET m == MergeFiles(fs, 1, NilDefinition)
       IN IF m.err # NoError THEN m ELSE ValidateAndProcess(m.def)

(***************************************************************************)
(* The definitions and databases a run starts from.                        *)
(***************************************************************************)
NoChanges == [x \in {} |-> 0]

OneCount(type, n) == [x \in {type} |-> n]

OpShapes ==
  { [Type |-> TypeSelect, SQL |-> SQLSelect, Expected |-> e, ExpectedChanges |-> NoChanges] :
      e \in { <<[v |-> IntV(0)]>>, <<[v |-> StringV("1")]>> } }
  \cup
  { [Type |-> TypeSelect, SQL |-> SQLSelekt, Expected |-> <<[v |-> IntV(0)]>>,
     ExpectedChanges |-> NoChanges] }
  \cup
  { [Type |-> TypeInsert, SQL |-> SQLInsert, Expected |-> <<>>, ExpectedChanges |-> c] :
      c \in {NoChanges, OneCount(TypeInsert, 1)} }
  \cup
  { [Type |-> TypeUpdate, SQL |-> SQLUpdate, Expected |-> <<>>,
     ExpectedChanges |-> OneCount(TypeUpdate, 1)] }
  \cup
  { [Type |-> TypeUpdate, SQL |-> SQLUpdaet, Expected |-> <<>>,
     ExpectedChanges |-> OneCount(TypeUpdate, 1)] }
  \cup
  { [Type |-> TypeUpdate, SQL |-> SQLUpdate, Expected |-> <<>>,
     ExpectedChanges |-> OneCount(TypeDelete, 1)] }
  \cup
  { [Type |-> TypeDelete, SQL |-> SQLDelete, Expected |-> <<>>,
     ExpectedChanges |-> OneCount(TypeDelete, 1)] }
  \cup
  { [Type |-> "truncate", SQL |-> SQLTruncate, Expected |-> <<>>, ExpectedChanges |-> NoChanges] }

OpID(k) == "op" \o ToString(k)

OpDescription(k) == "step " \o ToString(k)

\* A definition: operation k of the shapes chosen gets the id "op<k>".
Definitions ==
  UNION { { [k \in 1..n |->
              [ID |-> OpID(k), Description |-> OpDescription(k), Type |-> shapes[k].Type,
               SQL |-> shapes[k].SQL, Expected |-> shapes[k].Expected,
               ExpectedChanges |-> shapes[k].ExpectedChanges]] :
            shapes \in [1..n -> OpShapes] } : n \in 0..MaxOps }

InitTables == { <<>>, <<0>> }

\* The handle BeginTransaction returns; a run holds at most this one.
TheTx == 1

\* An entry of calls: the call, the operation (1-based) it was made for or 0,
\* the transaction it was made on or that it returned, and its error.
Call(name, k, tx, err) == [call |-> name, op |-> k, tx |-> tx, err |-> err]

NoReturn == [reports |-> <<>>, err |-> NoError]

\* The state before runRun has written or returned anything.
CallerIdle ==
  /\ events = <<>>
  /\ runErr = NoError
  /\ exitCode = -1

\* The state of the variables of a lone validator call when none is made.
ValidatorOff ==
  /\ vActual = <<>>
  /\ vExpected = <<>>
  /\ vType = ""
  /\ vVerdict = Verdict(FALSE, "")
  /\ vpc = "off"

\* The state of the variables of LoadDefinitions when it is not called.
LoaderOff ==
  /\ files = <<>>
  /\ loaded = [def |-> NilDefinition, err |-> NoError]
  /\ lpc = "off"

\* The handle BeginTransaction returns to the second run.
SecondTx == 2

\* The state of a call of Execute: the receiver's mode, def.Operations, and
\* the locals tx (txState, txTable: what the transaction has written),
\* the position i of the loop, the slice reports and the err of the last
\* executeOperation; what it returned, and the calls it made on the database.
Run(m, operations, at) ==
  [mode |-> m, ops |-> operations, txTable |-> NoWrites, txState |-> "none", pc |-> at,
   i |-> 1, reports |-> <<>>, err |-> NoError, ret |-> NoReturn, calls |-> <<>>]

\* No second run is made.
SecondOff == second = Run("plan", <<>>, "off")

\* A file that is not YAML.
BadFile == File("yaml: unmarshal errors", NilDefinition)

\* A path at which there is no file.
MissingFile == FileOf("no such file or directory", NoError, NilDefinition)

\* A call of Execute by a user of the executor package starts at pc "start"
\* with the definition it was given.  The command "opsql run" starts at pc
\* "config"; --config names one file, which holds a definition, is not YAML
\* or is not there, or no file.  The caller of the package holds a
\* *Database that NewDatabase returned; runRun gets the DSN from the
\* environment.
Init ==
  /\ mode \in {"plan", "apply"}
  /\ caller \in {"runRun", "api"}
  /\ dsn \in IF caller = "api" THEN {DSNs.postgres, DSNs.mysql}
              ELSE {DSNs.unset, DSNs.postgres, DSNs.postgresql, DSNs.sqlite}
  /\ db \in InitTables
  /\ db0 = db
  /\ txTable = NoWrites
  /\ txState = "none"
  /\ IF caller = "api"
     THEN /\ ops \in Definitions
          /\ pc = "start"
          /\ LoaderOff
     ELSE /\ ops = <<>>
          /\ pc = "config"
          /\ \/ \E operations \in Definitions :
                  files = <<File(NoError, [Version |-> 1, Params |-> NoParams,
                                           Operations |-> operations])>>
             \/ files \in { <<>>, <<BadFile>>, <<MissingFile>> }
          /\ loaded = [def |-> NilDefinition, err |-> NoError]
          /\ lpc = "call"
  /\ i = 1
  /\ reports = <<>>
  /\ ret = NoReturn
  /\ calls = <<>>
  /\ outcomes = <<>>
  /\ ctxDone = FALSE
  /\ CallerIdle
  /\ ValidatorOff
  /\ SecondOff

(***************************************************************************)
(* runRun up to the call of Execute: loadRunConfig, LoadDefinitions and    *)
(* NewDatabase.  At pc "failed" runRun has returned the error of one of    *)
(* them, and cmd.Execute has ended the process with exit code 1.           *)
(***************************************************************************)
Event(name, rs, err) == [ev |-> name, reports |-> rs, err |-> err]

\* sendNotifications: the GitHub comment, then the Slack notification.
sendNotifications(rs, err) == <<Event("github", rs, err), Event("slack", rs, err)>>

\* cmd.Execute: os.Exit(1) when rootCmd.Execute() returned an error;
\* otherwise main returns and the exit code is 0.
ExitCode(err) == IF err # NoError THEN 1 ELSE 0

\* loadRunConfig: its error is returned as it is, and nothing is sent.
RunRunConfig ==
  /\ caller = "runRun"
  /\ pc = "config"
  /\ IF dsn = DSNs.unset
     THEN /\ runErr' = "DATABASE_DSN environment variable is required"
          /\ exitCode' = ExitCode(runErr')
          /\ pc' = "failed"
     ELSE /\ pc' = "load"
          /\ UNCHANGED <<runErr, exitCode>>
  /\ UNCHANGED <<mode, caller, dsn, ops, db, db0, txTable, txState, i, reports, ret, calls,
                 outcomes, ctxDone, events, valVars, loadVars, second>>

\* definition.LoadDefinitions(config.ConfigFiles)
RunRunLoad ==
  /\ caller = "runRun"
  /\ pc = "load"
  /\ loaded' = LoadDefinitions(files)
  /\ lpc' = "ret"
  /\ IF loaded'.err # NoError
     THEN /\ runErr' = "failed to load definition: " \o loaded'.err
          /\ events' = events \o sendNotifications(<<>>, runErr')
          /\ exitCode' = ExitCode(runErr')
          /\ pc' = "failed"
          /\ ops' = ops
     ELSE /\ ops' = loaded'.def.Operations
          /\ pc' = "connect"
          /\ UNCHANGED <<runErr, events, exitCode>>
  /\ UNCHANGED <<mode, caller, dsn, db, db0, txTable, txState, i, reports, ret, calls,
                 outcomes, ctxDone, valVars, files, second>>

\* database.NewDatabase(config.DatabaseDSN), DATABASE_DSN being set.
RunRunConnect ==
  /\ caller = "runRun"
  /\ pc = "connect"
  /\ \E err \in NewDatabaseResults(dsn) :
       IF err # NoError
       THEN /\ runErr' = "failed to connect to database: " \o err
            /\ events' = events \o sendNotifications(<<>>, runErr')
            /\ exitCode' = ExitCode(runErr')
            /\ pc' = "failed"
       ELSE /\ pc' = "start"
            /\ UNCHANGED <<runErr, events, exitCode>>
  /\ UNCHANGED <<mode, caller, dsn, ops, db, db0, txTable, txState, i, reports, ret, calls,
                 outcomes, ctxDone, valVars, loadVars, second>>

(***************************************************************************)
(* The caller cancels the ctx it gave to Execute.  runRun passes           *)
(* context.Background(), which is never cancelled; a caller of the         *)
(* executor package may pass any context.  This is a cancellation between  *)
(* two calls of Execute; ApplyStep and PlanStep hold the cancellation      *)
(* while a statement runs.                                                 *)
(***************************************************************************)
Cancel ==
  /\ caller = "api"
  /\ pc \in {"start", "loop", "abort", "fail"}
  /\ ~ctxDone
  /\ ctxDone' = TRUE
  /\ UNCHANGED <<mode, caller, dsn, ops, db, db0, txTable, txState, pc, i, reports, ret,
                 calls, outcomes, callerVars, valVars, loadVars, second>>

\* The errors d.BeginTxx(ctx, nil) can return; NoError is success.
BeginResults == IF ctxDone THEN {Canceled} ELSE {NoError, "connection refused"}

\* The errors t.Tx.Commit() can return for a transaction that has written
\* w: database/sql rolls the transaction back when its context is
\* cancelled, and Commit then fails; lib/pq rolls back a transaction that
\* has failed.
CommitResults(w) ==
  IF ctxDone THEN {Canceled, "sql: transaction has already been committed or rolled back"}
  ELSE IF w.failed THEN {"pq: Could not complete operation in a failed transaction"}
  ELSE {NoError, "connection lost"}

\* The errors t.Tx.Rollback() can return.
RollbackResults ==
  IF ctxDone THEN {NoError, "sql: transaction has already been committed or rolled back"}
  ELSE {NoError, "connection lost"}

\* Execute returning a nil error when BeginTransaction fails.
BeginTransactionSwallow ==
  /\ pc = "start"
  /\ \E err \in BeginResults :
       IF err = NoError
       THEN /\ txState' = "open"
            /\ txTable' = NoWrites
            /\ pc' = "loop"
            /\ ret' = ret
            /\ calls' = Append(calls, Call("begin", 0, TheTx, NoError))
       ELSE /\ UNCHANGED <<txState, txTable>>
            /\ pc' = "done"
            /\ ret' = [reports |-> <<>>, err |-> NoError]
            /\ calls' = Append(calls, Call("begin", 0, 0, err))
  /\ UNCHANGED <<mode, caller, dsn, ops, db, db0, i, reports, outcomes, ctxDone,
                 callerVars, valVars, loadVars, second>>

(***************************************************************************)
(* e.db.BeginTransaction(ctx) at the head of both Execute methods.         *)
(***************************************************************************)
BeginTransaction ==
  /\ pc = "start"
  /\ \E err \in BeginResults :
       IF err = NoError
       THEN /\ txState' = "open"
            /\ txTable' = NoWrites
            /\ pc' = "loop"
            /\ ret' = ret
            /\ calls' = Append(calls, Call("begin", 0, TheTx, NoError))
       ELSE /\ UNCHANGED <<txState, txTable>>
            /\ pc' = "done"
            /\ ret' = [reports |-> <<>>, err |-> "failed to begin transaction: " \o err]
            /\ calls' = Append(calls, Call("begin", 0, 0, err))
  /\ UNCHANGED <<mode, caller, dsn, ops, db, db0, i, reports, outcomes, ctxDone,
                 callerVars, valVars, loadVars, second>>

\* The Port calls of an outcome, as entries of calls for operation k.
PortCalls(o, k) ==
  [j \in 1..Len(o.port) |-> Call(o.port[j].call, k, o.port[j].tx, o.port[j].err)]

\* What the loop records of an executeOperation call.
Returned(o) == [err |-> o.err, reported |-> o.report # <<>>, validated |-> o.validated]

\* The handle the statements of the loop are issued on: the connection of
\* e.db, which sees the table as committed and nothing of the transaction.
ConnView == [rows |-> db, w |-> NoWrites]

\* The handle the statements of the loop are issued on: tx.
TxView == [rows |-> db, w |-> txTable]

\* ApplyDecision without the check of report.Pass.
ApplyDecisionErrOnly(o) ==
  IF o.err # NoError THEN "return" ELSE "continue"

\* What the body of the loop of ApplyExecutor.Execute does with an outcome:
\* "return" the error after a rollback, os.Exit(1) after a rollback, or go on.
ApplyDecision(o) ==
  IF o.err # NoError THEN "return"
  ELSE IF ~o.report[1].Pass THEN "exit"
  ELSE "continue"

\* What the body of the loop of PlanExecutor.Execute does with an outcome.
PlanDecision(o) ==
  IF o.err # NoError THEN "return" ELSE "continue"

\* How each Execute finalizes the transaction once its loop has run through.
ApplyFinalizerRollback == "rollback"

ApplyFinalizer == "commit"

PlanFinalizerCommit == "commit"

PlanFinalizer == "rollback"

\* Execute returning on an abort without a call of tx.Rollback().
AbortCallsNone(rb) == <<>>

\* The call an abort of the loop makes before Execute returns or exits:
\* tx.Rollback(), which returned rb.
AbortCalls(rb) == <<Call("rollback", 0, TheTx, rb)>>

\* The error Execute returns when it was about to return retErr and its
\* tx.Rollback() returned rbErr: "_ = tx.Rollback()" and "defer tx.Rollback()"
\* drop rbErr.
AfterRollback(retErr, rbErr) == retErr

\* The Reports Execute returns with the error of a failed tx.Commit(): nil.
CommitFailureReports(rs) == <<>>

\* The error Execute returns for operation op whose executeOperation
\* returned err.
OperationError(op, err) == "operation[" \o op.ID \o "]: " \o err

\* reports kept in one slice shared by every call of Execute: the Report
\* is appended to the slice of the first run.
AppendReportShared(rs, o) == reports \o o.report

\* reports = append(reports, *report) when report is not nil; reports is a
\* local of the call of Execute.
AppendReport(rs, o) == rs \o o.report

(***************************************************************************)
(* One iteration of the loop of ApplyExecutor.Execute, up to the call of   *)
(* tx.Rollback() when the iteration leaves the loop: pc "abort" is the     *)
(* point before "_ = tx.Rollback()" of the branch err != nil, pc "fail"    *)
(* the point before tx.Rollback() of the branch !report.Pass.  The Report  *)
(* is appended and the transaction is still open there.  The ctx given to  *)
(* Execute is done before the statement of the iteration, live throughout, *)
(* or cancelled by the caller while the statement runs.                    *)
(***************************************************************************)
ApplyStep ==
  /\ mode = "apply"
  /\ pc = "loop"
  /\ i <= Len(ops)
  /\ IF ~ctxDone /\ Waits(ops[i], txTable, second.txTable)
     THEN /\ txTable.wait = <<>>
          /\ txTable' = [txTable EXCEPT !.wait = <<Len(db)>>]
          /\ UNCHANGED <<reports, outcomes, calls, i, pc>>
          /\ ctxDone' = ctxDone
     ELSE
     \E ctx \in (IF ctxDone THEN {"done"}
                 ELSE IF caller = "api" THEN {"live", "cancelled"} ELSE {"live"}) :
       \E o \in executeOperation(ctx, TheTx, TxView, ops[i]) :
         LET decision == ApplyDecision(o)
         IN /\ reports' = AppendReport(reports, o)
            /\ outcomes' = Append(outcomes, Returned(o))
            /\ calls' = calls \o PortCalls(o, i)
            /\ txTable' = o.table.w
            /\ ctxDone' = (ctx # "live")
            /\ i' = IF decision = "continue" THEN i + 1 ELSE i
            /\ pc' = CASE decision = "continue" -> pc
                       [] decision = "return" -> "abort"
                       [] decision = "exit" -> "fail"
  /\ UNCHANGED <<mode, caller, dsn, ops, db, db0, txState, ret, callerVars, valVars,
                 loadVars, second>>

(***************************************************************************)
(* One iteration of the loop of PlanExecutor.Execute; pc "abort" is the    *)
(* point where the iteration has returned and the deferred tx.Rollback()   *)
(* has not run yet.  The ctx is as in ApplyStep.                           *)
(***************************************************************************)
PlanStep ==
  /\ mode = "plan"
  /\ pc = "loop"
  /\ i <= Len(ops)
  /\ IF ~ctxDone /\ Waits(ops[i], txTable, second.txTable)
     THEN /\ txTable.wait = <<>>
          /\ txTable' = [txTable EXCEPT !.wait = <<Len(db)>>]
          /\ UNCHANGED <<reports, outcomes, calls, i, pc>>
          /\ ctxDone' = ctxDone
     ELSE
     \E ctx \in (IF ctxDone THEN {"done"}
                 ELSE IF caller = "api" THEN {"live", "cancelled"} ELSE {"live"}) :
       \E o \in executeOperation(ctx, TheTx, TxView, ops[i]) :
         LET decision == PlanDecision(o)
         IN /\ reports' = AppendReport(reports, o)
            /\ outcomes' = Append(outcomes, Returned(o))
            /\ calls' = calls \o PortCalls(o, i)
            /\ txTable' = o.table.w
            /\ ctxDone' = (ctx # "live")
            /\ i' = IF decision = "continue" THEN i + 1 ELSE i
            /\ pc' = IF decision = "continue" THEN pc ELSE "abort"
  /\ UNCHANGED <<mode, caller, dsn, ops, db, db0, txState, ret, callerVars, valVars,
                 loadVars, second>>

(***************************************************************************)
(* tx.Rollback() of an iteration that left the loop, and what follows it:  *)
(* at pc "abort" Execute returns the reports and the error of operation i  *)
(* ("_ = tx.Rollback()" in ApplyExecutor, the deferred call in             *)
(* PlanExecutor); at pc "fail" ApplyExecutor calls os.Exit(1), which ends  *)
(* the process with exit code 1 whoever called Execute.  The ctx may have  *)
(* been cancelled since the statement of the iteration returned.           *)
(***************************************************************************)
AbortRollback ==
  /\ pc \in {"abort", "fail"}
  /\ \E rb \in RollbackResults :
       /\ calls' = calls \o AbortCalls(rb)
       /\ txState' = "rolledback"
       /\ txTable' = NoWrites
       /\ IF pc = "abort"
          THEN /\ ret' = [reports |-> reports,
                          err |-> AfterRollback(
                                    OperationError(ops[i], outcomes[Len(outcomes)].err), rb)]
               /\ pc' = "done"
               /\ exitCode' = exitCode
          ELSE /\ ret' = ret
               /\ pc' = "exited"
               /\ exitCode' = 1
  /\ UNCHANGED <<mode, caller, dsn, ops, db, db0, i, reports, outcomes, ctxDone, events, runErr,
                 valVars, loadVars, second>>

(***************************************************************************)
(* The code after the loop, for a finalizer "commit" or "rollback":        *)
(* ApplyExecutor.Execute calls tx.Commit() and returns nil Reports when it *)
(* fails; PlanExecutor.Execute returns and its deferred tx.Rollback() runs.*)
(* A Commit that succeeds makes what the transaction has written the       *)
(* committed table.                                                        *)
(* txState "rolledback" says that Rollback has been called; a Rollback     *)
(* that fails leaves nothing persisted either.                             *)
(***************************************************************************)
Finish(how) ==
  /\ pc = "loop"
  /\ i > Len(ops)
  /\ IF how = "commit"
     THEN \E err \in CommitResults(txTable) :
            IF err = NoError
            THEN /\ db' = View(TxView)
                 /\ second' = [second EXCEPT !.txTable = AfterCommitOf(txTable, @)]
                 /\ txState' = "committed"
                 /\ ret' = [reports |-> reports, err |-> NoError]
                 /\ calls' = Append(calls, Call("commit", 0, TheTx, NoError))
            ELSE /\ UNCHANGED <<db, second>>
                 /\ txState' = "commitfailed"
                 /\ ret' = [reports |-> CommitFailureReports(reports),
                            err |-> "failed to commit transaction: " \o err]
                 /\ calls' = Append(calls, Call("commit", 0, TheTx, err))
     ELSE \E rb \in RollbackResults :
          /\ UNCHANGED <<db, second>>
          /\ txState' = "rolledback"
          /\ ret' = [reports |-> reports, err |-> AfterRollback(NoError, rb)]
          /\ calls' = Append(calls, Call("rollback", 0, TheTx, rb))
  /\ txTable' = NoWrites
  /\ pc' = "done"
  /\ UNCHANGED <<mode, caller, dsn, ops, db0, i, reports, outcomes, ctxDone,
                 callerVars, valVars, loadVars>>

ApplyCommit ==
  /\ mode = "apply"
  /\ Finish(ApplyFinalizer)

PlanReturn ==
  /\ mode = "plan"
  /\ Finish(PlanFinalizer)

(***************************************************************************)
(* runRun once Execute has returned (reports, executionErr), and           *)
(* cmd.Execute around it.                                                  *)
(***************************************************************************)
\* runRun returning executionErr before it writes or sends anything.
RunRunEventsReturnFirst(rs, err) ==
  IF err # NoError THEN <<>>
  ELSE <<Event("output", rs, NoError)>> \o sendNotifications(rs, err)

\* What runRun writes and sends, in order, before it returns.
RunRunEvents(rs, err) ==
  (IF Len(rs) > 0 THEN <<Event("output", rs, NoError)>> ELSE <<>>)
    \o sendNotifications(rs, err)

RunRunReturn ==
  /\ caller = "runRun"
  /\ pc = "done"
  /\ exitCode = -1
  /\ events' = events \o RunRunEvents(ret.reports, ret.err)
  /\ runErr' = IF ret.err = NoError THEN NoError
                ELSE IF mode = "plan" THEN "failed to execute dry run: " \o ret.err
                ELSE "failed to execute: " \o ret.err
  /\ exitCode' = ExitCode(runErr')
  /\ UNCHANGED <<execVars, valVars, loadVars, second>>

Next ==
  \/ RunRunConfig
  \/ RunRunLoad
  \/ RunRunConnect
  \/ Cancel
  \/ BeginTransaction
  \/ ApplyStep
  \/ ApplyCommit
  \/ PlanStep
  \/ PlanReturn
  \/ AbortRollback
  \/ RunRunReturn

Spec == Init /\ [][Next]_vars

(***************************************************************************)
(* A second run: another opsql process with its own Executor, calling      *)
(* Execute on the same database.  Its BeginTransaction returns its own     *)
(* handle, and the server runs the two transactions as the section on      *)
(* transactions says.  os.Exit(1) ends the process of the run that calls   *)
(* it.  No ctx is cancelled.                                               *)
(***************************************************************************)
SecondBegin ==
  /\ second.pc = "start"
  /\ \E err \in BeginResults :
       second' =
         IF err = NoError
         THEN [second EXCEPT !.txState = "open", !.txTable = NoWrites, !.pc = "loop",
                             !.calls = Append(@, Call("begin", 0, SecondTx, NoError))]
         ELSE [second EXCEPT !.pc = "done",
                             !.ret = [reports |-> <<>>,
                                      err |-> "failed to begin transaction: " \o err],
                             !.calls = Append(@, Call("begin", 0, 0, err))]
  /\ UNCHANGED <<execVars, callerVars, valVars, loadVars>>

\* One iteration of the loop of Execute in the second run, up to the call of
\* tx.Rollback() when the iteration leaves the loop.
SecondStep ==
  /\ second.pc = "loop"
  /\ second.i <= Len(second.ops)
  /\ IF Waits(second.ops[second.i], second.txTable, txTable)
     THEN /\ second.txTable.wait = <<>>
          /\ second' = [second EXCEPT !.txTable.wait = <<Len(db)>>]
     ELSE
     \E o \in executeOperation("live", SecondTx, [rows |-> db, w |-> second.txTable],
                                second.ops[second.i]) :
       LET decision == IF second.mode = "apply" THEN ApplyDecision(o) ELSE PlanDecision(o)
           issued == PortCalls(o, second.i)
       IN second' =
            [second EXCEPT
               !.reports = AppendReport(@, o),
               !.calls = @ \o issued,
               !.txTable = o.table.w,
               !.err = o.err,
               !.i = IF decision = "continue" THEN @ + 1 ELSE @,
               !.pc = CASE decision = "continue" -> @
                        [] decision = "return" -> "abort"
                        [] decision = "exit" -> "fail"]
  /\ UNCHANGED <<execVars, callerVars, valVars, loadVars>>

\* tx.Rollback() of an iteration of the second run that left the loop, and
\* the return or the os.Exit(1) that follows it.
SecondRollback ==
  /\ second.pc \in {"abort", "fail"}
  /\ \E rb \in RollbackResults :
       second' =
         [second EXCEPT
            !.calls = @ \o <<Call("rollback", 0, SecondTx, rb)>>,
            !.txState = "rolledback",
            !.txTable = NoWrites,
            !.ret = IF second.pc = "abort"
                    THEN [reports |-> second.reports,
                          err |-> AfterRollback(
                                    OperationError(second.ops[second.i], second.err), rb)]
                    ELSE @,
            !.pc = IF second.pc = "abort" THEN "done" ELSE "exited"]
  /\ UNCHANGED <<execVars, callerVars, valVars, loadVars>>

\* The code after the loop in the second run.
SecondFinish ==
  /\ second.pc = "loop"
  /\ second.i > Len(second.ops)
  /\ IF (IF second.mode = "apply" THEN ApplyFinalizer ELSE PlanFinalizer) = "commit"
     THEN \E err \in CommitResults(second.txTable) :
            IF err = NoError
            THEN /\ db' = View([rows |-> db, w |-> second.txTable])
                 /\ txTable' = AfterCommitOf(second.txTable, txTable)
                 /\ second' = [second EXCEPT
                                 !.txState = "committed", !.txTable = NoWrites, !.pc = "done",
                                 !.ret = [reports |-> second.reports, err |-> NoError],
                                 !.calls = Append(@, Call("commit", 0, SecondTx, NoError))]
            ELSE /\ UNCHANGED <<db, txTable>>
                 /\ second' = [second EXCEPT
                                 !.txState = "commitfailed", !.txTable = NoWrites, !.pc = "done",
                                 !.ret = [reports |-> CommitFailureReports(second.reports),
                                          err |-> "failed to commit transaction: " \o err],
                                 !.calls = Append(@, Call("commit", 0, SecondTx, err))]
     ELSE \E rb \in RollbackResults :
          /\ UNCHANGED <<db, txTable>>
          /\ second' = [second EXCEPT
                          !.txState = "rolledback", !.txTable = NoWrites, !.pc = "done",
                          !.ret = [reports |-> second.reports,
                                   err |-> AfterRollback(NoError, rb)],
                          !.calls = Append(@, Call("rollback", 0, SecondTx, rb))]
  /\ UNCHANGED <<mode, caller, dsn, ops, db0, txState, pc, i, reports, ret, calls,
                 outcomes, ctxDone, callerVars, valVars, loadVars>>

\* The definitions of at most max operations over a set of shapes.
DefinitionsOver(shapeSet, max) ==
  UNION { { [k \in 1..n |->
              [ID |-> OpID(k), Description |-> OpDescription(k), Type |-> shapes[k].Type,
               SQL |-> shapes[k].SQL, Expected |-> shapes[k].Expected,
               ExpectedChanges |-> shapes[k].ExpectedChanges]] :
            shapes \in [1..n -> shapeSet] } : n \in 0..max }

\* The state of the first run before it starts, in a specification of two
\* runs made through the executor package.
FirstRun ==
  /\ caller = "background"
  /\ db0 = db
  /\ txTable = NoWrites
  /\ txState = "none"
  /\ pc = "start"
  /\ i = 1
  /\ reports = <<>>
  /\ ret = NoReturn
  /\ calls = <<>>
  /\ outcomes = <<>>
  /\ ctxDone = FALSE
  /\ CallerIdle
  /\ ValidatorOff
  /\ LoaderOff

(***************************************************************************)
(* The same plan-mode definition run twice in succession: the second run   *)
(* starts when the first has returned.                                     *)
(***************************************************************************)
\* Longest definition run twice.
MaxTwiceOps == 2

\* A select that passes on a table of one row v = 0, a select whose
\* expected row differs from that row in two columns, a select the database
\* rejects, and three statements.
TwiceShapes ==
  { [Type |-> TypeSelect, SQL |-> SQLSelect, Expected |-> <<[v |-> IntV(0)]>>,
     ExpectedChanges |-> NoChanges],
    [Type |-> TypeSelect, SQL |-> SQLSelect, Expected |-> <<[v |-> IntV(1), w |-> IntV(1)]>>,
     ExpectedChanges |-> NoChanges],
    [Type |-> TypeSelect, SQL |-> SQLSelekt, Expected |-> <<[v |-> IntV(0)]>>,
     ExpectedChanges |-> NoChanges],
    [Type |-> TypeInsert, SQL |-> SQLInsert, Expected |-> <<>>,
     ExpectedChanges |-> OneCount(TypeInsert, 1)],
    [Type |-> TypeUpdate, SQL |-> SQLUpdate, Expected |-> <<>>,
     ExpectedChanges |-> OneCount(TypeUpdate, 1)],
    [Type |-> TypeDelete, SQL |-> SQLDelete, Expected |-> <<>>,
     ExpectedChanges |-> OneCount(TypeDelete, 0)] }

InitTwice ==
  /\ mode = "plan"
  /\ dsn \in {DSNs.postgres, DSNs.mysql}
  /\ ops \in DefinitionsOver(TwiceShapes, MaxTwiceOps)
  /\ db \in InitTables
  /\ FirstRun
  /\ second = Run("plan", ops, "start")

\* The second run is made once the first has returned.
NextTwice ==
  \/ BeginTransaction
  \/ PlanStep
  \/ PlanReturn
  \/ AbortRollback
  \/ pc = "done" /\ SecondBegin
  \/ pc = "done" /\ SecondStep
  \/ pc = "done" /\ SecondRollback
  \/ pc = "done" /\ SecondFinish

SpecTwice == InitTwice /\ [][NextTwice]_vars

(***************************************************************************)
(* Two runs at once, of any two definitions in any two modes, their steps  *)
(* interleaved in any way.                                                 *)
(***************************************************************************)
\* Longest definition of a concurrent run.
MaxRunOps == 2

ConcurrentShapes ==
  { [Type |-> TypeSelect, SQL |-> SQLSelect, Expected |-> <<[v |-> IntV(0)]>>,
     ExpectedChanges |-> NoChanges],
    [Type |-> TypeInsert, SQL |-> SQLInsert, Expected |-> <<>>,
     ExpectedChanges |-> OneCount(TypeInsert, 1)],
    [Type |-> TypeUpdate, SQL |-> SQLUpdate, Expected |-> <<>>,
     ExpectedChanges |-> OneCount(TypeUpdate, 1)],
    [Type |-> "truncate", SQL |-> SQLTruncate, Expected |-> <<>>,
     ExpectedChanges |-> NoChanges] }

\* The server is PostgreSQL.
InitConcurrent ==
  /\ mode \in {"plan", "apply"}
  /\ dsn = DSNs.postgres
  /\ ops \in DefinitionsOver(ConcurrentShapes, MaxRunOps)
  /\ db \in InitTables
  /\ FirstRun
  /\ \E m \in {"plan", "apply"} :
       \E operations \in DefinitionsOver(ConcurrentShapes, MaxRunOps) :
         second = Run(m, operations, "start")

NextConcurrent ==
  \/ BeginTransaction
  \/ ApplyStep
  \/ ApplyCommit
  \/ PlanStep
  \/ PlanReturn
  \/ AbortRollback
  \/ SecondBegin
  \/ SecondStep
  \/ SecondRollback
  \/ SecondFinish

SpecConcurrent == InitConcurrent /\ [][NextConcurrent]_vars

(***************************************************************************)
(* The package database used on its own: a caller that holds the *Database *)
(* calls QueryRowsContext and ExecContext on it, each with a ctx of its    *)
(* own.  A statement issued so runs in no transaction: it sees the table   *)
(* as committed, and what it changes is committed when the call returns.   *)
(* outcomes records what each call returned.                               *)
(***************************************************************************)
\* Most calls made on the *Database.
MaxDirectCalls == 3

DirectStatements == {SQLSelect, SQLSelekt, SQLInsert, SQLUpdate, SQLDelete, SQLUpdaet}

InitDatabase ==
  /\ mode = "plan"
  /\ caller = "api"
  /\ dsn \in {DSNs.postgres, DSNs.mysql, DSNs.tcp}
  /\ ops = <<>>
  /\ db \in InitTables
  /\ db0 = db
  /\ txTable = NoWrites
  /\ txState = "none"
  /\ pc = "off"
  /\ i = 1
  /\ reports = <<>>
  /\ ret = NoReturn
  /\ calls = <<>>
  /\ outcomes = <<>>
  /\ ctxDone = FALSE
  /\ CallerIdle
  /\ ValidatorOff
  /\ LoaderOff
  /\ SecondOff

\* (d *Database).QueryRowsContext(ctx, query).  The ctx of the call can be
\* cancelled before the call, while the statement runs or while its rows
\* are read.  A PostgreSQL server that is asked to cancel the statement
\* undoes it, and the call returns the error of the server; a call that
\* returns ctx.Err() returns the rows it has read, which may be all of
\* them, and the statement has changed the table or not.
DatabaseQueryRowsContext ==
  /\ pc = "off"
  /\ Len(calls) < MaxDirectCalls
  /\ \E sql \in DirectStatements :
       \E q \in {QueryRows(db, sql)}
                  \cup { [rows |-> SubSeq(QueryRows(db, sql).rows, 1, n),
                          table |-> IF err = Canceled THEN t ELSE db,
                          err |-> err] :
                          n \in 0..Len(QueryRows(db, sql).rows),
                          t \in {db, QueryRows(db, sql).table},
                          err \in CancelledErrors } :
         /\ db' = q.table
         /\ calls' = Append(calls, Call("query", 0, 0, q.err))
         /\ outcomes' = Append(outcomes, [rows |-> q.rows, err |-> q.err])
  /\ UNCHANGED <<mode, caller, dsn, ops, db0, txTable, txState, pc, i, reports, ret,
                 ctxDone, callerVars, valVars, loadVars, second>>

\* (d *Database).ExecContext(ctx, query).  The ctx of the call can be
\* cancelled before the statement runs or while it runs: the call returns
\* 0 and the error.  A PostgreSQL server that is asked to cancel the
\* statement undoes it, and the call returns the error of the server; when
\* the MySQL driver returns ctx.Err() the statement has changed the table
\* or not.
DatabaseExecContext ==
  /\ pc = "off"
  /\ Len(calls) < MaxDirectCalls
  /\ \E sql \in DirectStatements :
       \E x \in {Exec(db, sql)}
                  \cup { [table |-> IF Driver[dsn] = "postgres" THEN db ELSE t,
                          affected |-> 0, err |-> err] :
                          t \in {db, Exec(db, sql).table}, err \in CancelledErrors } :
         /\ db' = x.table
         /\ calls' = Append(calls, Call("exec", 0, 0, x.err))
         /\ outcomes' = Append(outcomes, [affected |-> x.affected, err |-> x.err])
  /\ UNCHANGED <<mode, caller, dsn, ops, db0, txTable, txState, pc, i, reports, ret,
                 ctxDone, callerVars, valVars, loadVars, second>>

NextDatabase ==
  \/ DatabaseQueryRowsContext
  \/ DatabaseExecContext

SpecDatabase == InitDatabase /\ [][NextDatabase]_vars

(***************************************************************************)
(* validateSelectResult on its own: one call on rows drawn from a small    *)
(* universe, with no run of an Executor around it.                         *)
(***************************************************************************)
\* Most rows of actual and of expected.
MaxRows == 2

Columns == {"id", "name"}

\* Rows as the driver scans them: integers are int64.
ActualRows ==
  { [id |-> Int64V(1)], [id |-> NilV], [name |-> StringV("1")],
    [id |-> Int64V(2)], [id |-> Int64V(1), name |-> StringV("a")],
    [id |-> Int64V(2), name |-> StringV("b")] }

\* Rows as the YAML of a definition decodes them: integers are int.  The
\* first is a row without columns.
ExpectedRows ==
  { [c \in {} |-> NilV], [id |-> IntV(1)], [id |-> IntV(2)], [id |-> StringV("1")],
    [id |-> NilV], [id |-> IntV(1), name |-> StringV("a")] }

RowSeqs(rows) == UNION { [1..n -> rows] : n \in 0..MaxRows }

\* No Executor runs.
ExecutorOff ==
  /\ mode = "plan"
  /\ caller = "api"
  /\ dsn = DSNs.unset
  /\ ops = <<>>
  /\ db = <<>>
  /\ db0 = <<>>
  /\ txTable = NoWrites
  /\ txState = "none"
  /\ pc = "off"
  /\ i = 1
  /\ reports = <<>>
  /\ ret = NoReturn
  /\ calls = <<>>
  /\ outcomes = <<>>
  /\ ctxDone = FALSE
  /\ SecondOff

InitValidate ==
  /\ ExecutorOff
  /\ CallerIdle
  /\ LoaderOff
  /\ vActual \in RowSeqs(ActualRows)
  /\ vExpected \in RowSeqs(ExpectedRows)
  /\ vType = TypeSelect
  /\ vVerdict = Verdict(FALSE, "")
  /\ vpc = "call"

\* The call e.validateSelectResult(vActual, vExpected) and its return.
ValidateSelect ==
  /\ vpc = "call"
  /\ vVerdict' \in validateSelectResult(vActual, vExpected)
  /\ vpc' = "ret"
  /\ UNCHANGED <<execVars, callerVars, loadVars, second, vActual, vExpected, vType>>

NextValidate == ValidateSelect

SpecValidate == InitValidate /\ [][NextValidate]_vars

(***************************************************************************)
(* LoadDefinitions on its own: one call on one or several configuration    *)
(* files, which hold at most MaxLoadOps operations together.               *)
(***************************************************************************)
MaxLoadOps == 2

Operation(id, type, sql, expected, changes) ==
  [ID |-> id, Description |-> "", Type |-> type, SQL |-> sql,
   Expected |-> expected, ExpectedChanges |-> changes]

\* A statement in lower case between white space: a form feed, a line
\* feed, a no-break space and a space before it, a vertical tab after it.
\* Its first letter is the long s (U+017F), whose upper case is S.
SQLSelectLower ==
  <<"\f", "\n", "U+00A0", " ", "U+017F", "e", "l", "e", "c", "t", "U+000B">>

\* The key of the param the files declare, and its value in file k.
EnvKey == <<"e", "n", "v">>

ParamValue(k) == <<ToString(k)>>

\* "SELECT {{ .params.env }}"
SQLSelectEnv ==
  SQLSelect \o <<" ", "{", "{", " ", ".", "p", "a", "r", "a", "m", "s", ".", "e", "n", "v",
                 " ", "}", "}">>

OneRow == <<[id |-> IntV(1)]>>

\* The operations a file can declare: with and without id and type, with
\* the expectation of their type, with none, with the other one, with both;
\* with the SQL "update", "SELECT {{.params.env.z}}" (a field of the param:
\* of a string when a file declares the param, of no value when none does)
\* and "SELECT {{" (an action that is not closed).
LoadOps ==
  { Operation("", "", SQLSelectLower, OneRow, NoChanges),
    Operation("a", TypeSelect, SQLSelect, OneRow, OneCount(TypeUpdate, 1)),
    Operation("a", TypeUpdate, SQLUpdate, <<>>, OneCount(TypeDelete, 1)),
    Operation("operation_0", TypeDelete, SQLDelete, <<>>, OneCount(TypeDelete, 1)),
    Operation("operation_1", TypeInsert, SQLInsert, <<>>, OneCount(TypeInsert, 1)),
    Operation("", TypeDelete, SQLSelect, <<>>, OneCount(TypeDelete, 1)),
    Operation("", "", SQLTruncate, <<>>, NoChanges),
    Operation("b", "upsert", SQLInsert, <<>>, OneCount(TypeInsert, 1)),
    Operation("", TypeSelect, SQLSelect, <<>>, NoChanges),
    Operation("b", "", <<"u", "p", "d", "a", "t", "e">>, <<>>, NoChanges),
    Operation("b", TypeInsert, <<>>, <<>>, OneCount(TypeInsert, 1)),
    Operation("t", "", SQLSelectEnv, OneRow, NoChanges),
    Operation("", TypeSelect,
              SQLSelect \o <<" ", "{", "{", ".", "p", "a", "r", "a", "m", "s", ".", "e", "n",
                             "v", ".", "z", "}", "}">>,
              OneRow, NoChanges),
    Operation("t", TypeSelect, SQLSelect \o <<" ", "{", "{">>, OneRow, NoChanges) }

Versions == {0, 1, 2}

\* The files that can stand at position k of configPaths with n operations.
Files(k, n) ==
  { File(NoError, [Version |-> v, Params |-> pr, Operations |-> o]) :
      v \in Versions,
      pr \in {NoParams, [key \in {EnvKey} |-> ParamValue(k)]},
      o \in [1..n -> LoadOps] }

\* The files without params that hold n operations.
PlainFiles(n) ==
  { File(NoError, [Version |-> v, Params |-> NoParams, Operations |-> o]) :
      v \in Versions, o \in [1..n -> LoadOps] }

\* The configPaths of a call: one file, or two or three files that hold at
\* most MaxLoadOps operations together, shared in any way; no file at all;
\* and a file that does not parse or is not there, alone or after a good
\* one.
LoadInputs ==
  \/ files \in { <<>>, <<BadFile>>, <<MissingFile>> }
  \/ \E f \in Files(1, 0) : files \in { <<f, BadFile>>, <<f, MissingFile>> }
  \/ \E n \in 0..MaxLoadOps : \E f \in Files(1, n) : files = <<f>>
  \/ \E n \in 0..MaxLoadOps : \E m \in 0..n :
       \E f \in Files(1, m), g \in Files(2, n - m) : files = <<f, g>>
  \/ \E n \in 0..MaxLoadOps : \E m \in 0..n : \E l \in 0..(n - m) :
       \E f \in PlainFiles(m), g \in PlainFiles(l), h \in PlainFiles(n - m - l) :
         files = <<f, g, h>>

InitLoad ==
  /\ ExecutorOff
  /\ CallerIdle
  /\ ValidatorOff
  /\ LoadInputs
  /\ loaded = [def |-> NilDefinition, err |-> NoError]
  /\ lpc = "call"

\* The call LoadDefinitions(configPaths) and its return.
Load ==
  /\ lpc = "call"
  /\ loaded' = LoadDefinitions(files)
  /\ lpc' = "ret"
  /\ UNCHANGED <<execVars, callerVars, valVars, files, second>>

NextLoad == Load

SpecLoad == InitLoad /\ [][NextLoad]_vars

(***************************************************************************)
(* validateDMLResult on its own: one call on an affected-row count, a map  *)
(* of expected counts and the type of a DML operation.                     *)
(***************************************************************************)
\* Largest count, affected or expected.
MaxCount == 1

\* The maps expected_changes can hold: any of the DML types, each with a
\* count.
ChangeMaps == UNION { [S -> 0..MaxCount] : S \in SUBSET DMLTypes }

InitValidateDML ==
  /\ ExecutorOff
  /\ CallerIdle
  /\ LoaderOff
  /\ vActual \in 0..MaxCount
  /\ vExpected \in ChangeMaps
  /\ vType \in DMLTypes
  /\ vVerdict = Verdict(FALSE, "")
  /\ vpc = "call"

\* The call e.validateDMLResult(vActual, vExpected, vType) and its return.
ValidateDML ==
  /\ vpc = "call"
  /\ vVerdict' = validateDMLResult(vActual, vExpected, vType)
  /\ vpc' = "ret"
  /\ UNCHANGED <<execVars, callerVars, loadVars, second, vActual, vExpected, vType>>

NextValidateDML == ValidateDML

SpecValidateDML == InitValidateDML /\ [][NextValidateDML]_vars

(***************************************************************************)
(* compareValues on its own: one call on two values drawn from the values  *)
(* a driver returns and a YAML document or a Go caller declares.           *)
(***************************************************************************)
\* Largest integer compared.
MaxInt == 1

\* The texts compared, as strings and as the []byte of their UTF-8 encoding.
Texts == {"", "a", "1", "2", "<nil>", "false", "[49]"}

\* []byte(s) for the texts above.
UTF8(s) ==
  CASE s = "" -> <<>>
    [] s = "a" -> <<97>>
    [] s = "1" -> <<49>>
    [] s = "2" -> <<50>>
    [] s = "<nil>" -> <<60, 110, 105, 108, 62>>
    [] s = "false" -> <<102, 97, 108, 115, 101>>
    [] s = "[49]" -> <<91, 52, 57, 93>>

CompareInputs ==
  {NilV}
  \cup { IntV(n) : n \in 0..MaxInt } \cup { Int64V(n) : n \in 0..MaxInt }
  \cup { StringV(s) : s \in Texts } \cup { BytesV(UTF8(s)) : s \in Texts }
  \cup { BoolV(b) : b \in BOOLEAN }

InitCompare ==
  /\ ExecutorOff
  /\ CallerIdle
  /\ LoaderOff
  /\ vActual \in CompareInputs
  /\ vExpected \in CompareInputs
  /\ vType = ""
  /\ vVerdict = FALSE
  /\ vpc = "call"

\* The call compareValues(vActual, vExpected) and its return.
Compare ==
  /\ vpc = "call"
  /\ vVerdict' = compareValues(vActual, vExpected)
  /\ vpc' = "ret"
  /\ UNCHANGED <<execVars, callerVars, loadVars, second, vActual, vExpected, vType>>

NextCompare == Compare

SpecCompare == InitCompare /\ [][NextCompare]_vars

(***************************************************************************)
(* Vocabulary of the properties.                                           *)
(***************************************************************************)
HasCall(name) == \E k \in 1..Len(calls) : calls[k].call = name

CountCalls(name) == Cardinality({k \in 1..Len(calls) : calls[k].call = name})

LastCall == calls[Len(calls)]

\* Execute has ended: it returned, or the process exited.
Terminated == pc \in {"done", "exited"}

\* Execute has left its loop and is about to call tx.Rollback().
Aborting == pc \in {"abort", "fail"}

\* Execute has been called and BeginTransaction has returned.
PastBegin == pc \in {"loop", "abort", "fail", "done", "exited"}

\* BeginTransaction succeeded.
Began == txState # "none"

AllPassed(rs) == \A k \in 1..Len(rs) : rs[k].Pass

\* The Port calls made for operations, in order.
OpCalls == SelectSeq(calls, LAMBDA c : c.op > 0)

\* The operation failed at the Port.
PortFailed(k) == \E j \in 1..Len(calls) : calls[j].op = k /\ calls[j].err # NoError

\* The table after the statements of operations 1..k have run, in that
\* order, on the table the run started from.
RECURSIVE Replay(_)
Replay(k) ==
  IF k = 0 THEN db0
  ELSE IF ops[k].Type \in AllowedTypes
       THEN Exec(Replay(k - 1), ops[k].SQL).table
       ELSE Replay(k - 1)

(***************************************************************************)
(* C1.  In apply mode a Report with pass = false ends the run at once: it  *)
(* is the last Report, the loop has been left at its operation, no Port    *)
(* call was issued for a later operation, and Commit was not called; the   *)
(* run is about to call Rollback on the open transaction, or it has ended  *)
(* and Rollback was the last call made.                                    *)
(***************************************************************************)
C1_ApplyStopsAtFirstFailure ==
  mode = "apply" =>
    \A k \in 1..Len(reports) :
      ~reports[k].Pass =>
        /\ Aborting \/ Terminated
        /\ k = Len(reports)
        /\ i = k
        /\ \A j \in 1..Len(calls) : calls[j].op <= k
        /\ ~HasCall("commit")
        /\ Aborting => txState = "open" /\ ~HasCall("rollback")
        /\ Terminated => txState = "rolledback" /\ LastCall.call = "rollback"

\* A failed Report in apply mode with operations declared after it, the run
\* having ended.
C1_Witness ==
  /\ mode = "apply"
  /\ Terminated
  /\ \E k \in 1..Len(reports) : ~reports[k].Pass /\ k >= 2 /\ k < Len(ops)

(***************************************************************************)
(* C2.  In apply mode, once the transaction has begun: Commit is called    *)
(* only when the loop has run through with one passed Report per           *)
(* operation, and then as the last call; a run that has ended called       *)
(* Commit exactly when every operation produced a passed Report; no run    *)
(* calls both Commit and Rollback; and the table changes only by a commit. *)
(***************************************************************************)
C2_CommitIffAllPass ==
  mode = "apply" =>
    /\ HasCall("commit") =>
         /\ i > Len(ops)
         /\ Len(reports) = Len(ops)
         /\ AllPassed(reports)
         /\ Len(OpCalls) = Len(ops)
         /\ LastCall.call = "commit"
         /\ CountCalls("commit") = 1
    /\ (Terminated /\ Began) =>
         (HasCall("commit") <=> (Len(reports) = Len(ops) /\ AllPassed(reports)))
    /\ ~(HasCall("commit") /\ HasCall("rollback"))
    /\ db # db0 => txState = "committed"

\* A committed apply-mode run of several operations that changed the table.
C2_Witness ==
  /\ mode = "apply"
  /\ txState = "committed"
  /\ Len(ops) >= 2
  /\ db # db0

(***************************************************************************)
(* C3.  In plan mode Commit is never called and the table never changes;   *)
(* when Execute has returned after a successful begin, the one transaction *)
(* it opened has been rolled back, by the last call made.                  *)
(***************************************************************************)
C3_PlanNeverPersists ==
  mode = "plan" =>
    /\ ~HasCall("commit")
    /\ db = db0
    /\ txState \in {"none", "open", "rolledback"}
    /\ (Terminated /\ Began) =>
         /\ txState = "rolledback"
         /\ LastCall.call = "rollback"
         /\ CountCalls("rollback") = CountCalls("begin")

\* A plan-mode run that has returned after a DML changed rows inside the
\* transaction and another operation failed.
C3_Witness ==
  /\ mode = "plan"
  /\ pc = "done"
  /\ \E k \in 1..Len(reports) :
       /\ reports[k].Type \in DMLTypes
       /\ reports[k].Pass
       /\ reports[k].Result.n >= 1
  /\ \E k \in 1..Len(reports) : ~reports[k].Pass

\* Apply mode, [A, B]: A a DML that passed, B a SELECT whose validation failed.
C4_Case ==
  /\ mode = "apply"
  /\ Len(ops) = 2
  /\ ops[1].Type \in DMLTypes
  /\ ops[2].Type = TypeSelect
  /\ Len(outcomes) = 2
  /\ reports[1].Pass
  /\ outcomes[2].validated
  /\ ~reports[2].Pass

(***************************************************************************)
(* C4.  Apply mode, definition [A, B] with A a DML whose count assertion   *)
(* passed and B a SELECT whose assertion failed: Execute has returned      *)
(* [A's Report with pass = true and result = A's affected-row count, B's   *)
(* Report with pass = false], and the table is as it was before the run;   *)
(* until Execute returns, the run is about to call Rollback and the table  *)
(* is as it was before the run.                                            *)
(***************************************************************************)
C4_AllOrNothing ==
  C4_Case =>
    /\ pc \in {"abort", "done"}
    /\ db = db0
    /\ ~HasCall("commit")
    /\ pc = "done" =>
         /\ txState = "rolledback"
         /\ Len(ret.reports) = 2
         /\ ret.reports[1].ID = ops[1].ID
         /\ ret.reports[1].Pass
         /\ ret.reports[1].Result = CountResult(Exec(db0, ops[1].SQL).affected)
         /\ ret.reports[2].ID = ops[2].ID
         /\ ~ret.reports[2].Pass

\* The case with an UPDATE that changed a row inside the transaction, after
\* Execute has returned.
C4_Witness ==
  /\ C4_Case
  /\ pc = "done"
  /\ ops[1].Type = TypeUpdate
  /\ Exec(db0, ops[1].SQL).table # db0
  /\ ret.reports[1].Result = CountResult(1)

(***************************************************************************)
(* C5.  executeOperation returns a Report and a nil error for every        *)
(* operation of type select, insert, update or delete, whether its         *)
(* validation passes or fails.                                             *)
(***************************************************************************)
C5_ErrorOnlyForUnsupportedType ==
  \A k \in 1..Len(outcomes) :
    ops[k].Type \in AllowedTypes =>
      /\ outcomes[k].reported
      /\ outcomes[k].err = NoError

(***************************************************************************)
(* C6.  In plan mode, when every operation type is supported, Execute      *)
(* returns one Report per operation and a nil error, whatever Reports have *)
(* pass = false.                                                           *)
(***************************************************************************)
C6_PlanRunsEveryOperation ==
  ( /\ mode = "plan"
    /\ pc = "done"
    /\ Began
    /\ \A k \in 1..Len(ops) : ops[k].Type \in AllowedTypes )
  => /\ Len(ret.reports) = Len(ops)
     /\ ret.err = NoError

(***************************************************************************)
(* C7.  When the Port call of an operation fails, its Report has           *)
(* pass = false, result = null and the message "query failed: <error>"     *)
(* (select) or "execution failed: <error>" (DML), executeOperation returns *)
(* a nil error, and the Validator was not invoked.                         *)
(***************************************************************************)
C7_PortFailureReport ==
  \A k \in 1..Len(outcomes) :
    PortFailed(k) =>
      /\ outcomes[k].reported
      /\ outcomes[k].err = NoError
      /\ ~outcomes[k].validated
      /\ ~reports[k].Pass
      /\ reports[k].Result = NilResult
      /\ \E j \in 1..Len(calls) :
           /\ calls[j].op = k
           /\ reports[k].Message =
                (IF ops[k].Type = TypeSelect THEN "query failed: "
                 ELSE "execution failed: ") \o calls[j].err

\* A run in which a query and an exec both failed at the Port.
C7_Witness ==
  /\ \E k \in 1..Len(outcomes) : PortFailed(k) /\ ops[k].Type = TypeSelect
  /\ \E k \in 1..Len(outcomes) : PortFailed(k) /\ ops[k].Type \in DMLTypes

(***************************************************************************)
(* C8.  In both modes the loop never passes an operation of an unsupported *)
(* type, and when it has reached operation k of such a type: no Port call  *)
(* was made for k or a later operation, no Report was produced for k, the  *)
(* loop has been left and Commit was not called; the run is about to call  *)
(* Rollback, or Rollback was its last call and Execute has returned the    *)
(* Reports of the operations before k with a non-nil error.                *)
(***************************************************************************)
C8_UnsupportedTypeAborts ==
  \A k \in 1..Len(ops) :
    ops[k].Type \notin AllowedTypes =>
      /\ i <= k
      /\ Len(outcomes) = k =>
           /\ ~outcomes[k].reported
           /\ \A j \in 1..Len(calls) : calls[j].op < k
           /\ Len(reports) = k - 1
           /\ pc \in {"abort", "done"}
           /\ ~HasCall("commit")
           /\ pc = "abort" => txState = "open" /\ ~HasCall("rollback")
           /\ pc = "done" =>
                /\ txState = "rolledback"
                /\ LastCall.call = "rollback"
                /\ ret.reports = reports
                /\ \A j \in 1..(k - 1) : ret.reports[j].ID = ops[j].ID
                /\ ret.err # NoError

\* A run stopped by an unsupported type after two reported operations has
\* returned.
C8_Witness ==
  \E k \in 1..Len(ops) :
    /\ ops[k].Type \notin AllowedTypes
    /\ Len(outcomes) = k
    /\ k = 3
    /\ pc = "done"

(***************************************************************************)
(* C9.  The Port calls of a run are made for operations 1, 2, ... in that  *)
(* order, one each, on the run's transaction; and the rows a SELECT        *)
(* returns are those of the table after the statements of all operations   *)
(* declared before it have run in order, uncommitted changes included.     *)
(***************************************************************************)
C9_DeclarationOrderAndVisibility ==
  /\ \A j \in 1..Len(OpCalls) : OpCalls[j].op = j /\ OpCalls[j].tx = TheTx
  /\ \A k \in 1..Len(reports) :
       reports[k].Result.kind = "rows" =>
         reports[k].Result.rows = QueryRows(Replay(k - 1), ops[k].SQL).rows

\* A SELECT that returned rows right after a DML changed the table inside
\* the transaction, the change being uncommitted.
C9_Witness ==
  \E k \in 2..Len(reports) :
    /\ reports[k].Result.kind = "rows"
    /\ ops[k - 1].Type \in DMLTypes
    /\ Replay(k - 1) # Replay(k - 2)
    /\ Replay(k - 1) # db
    /\ mode = "plan"

\* The number of transactions open after the first n calls.
OpenAfter(n) ==
  Cardinality({k \in 1..n : calls[k].call = "begin" /\ calls[k].err = NoError})
  - Cardinality({k \in 1..n : calls[k].call \in {"commit", "rollback"}})

(***************************************************************************)
(* C10.  Before Execute has called BeginTransaction no call has been made  *)
(* on the database; from then on BeginTransaction has been called exactly  *)
(* once, as the first call; every queryRows/exec call is made on the       *)
(* transaction it returned; and after no call are two transactions open.   *)
(***************************************************************************)
C10_OneTransactionPerRun ==
  IF ~PastBegin THEN calls = <<>>
  ELSE
    /\ CountCalls("begin") = 1
    /\ calls[1].call = "begin"
    /\ \A k \in 1..Len(calls) :
         calls[k].call \in {"query", "exec"} =>
           /\ Began
           /\ calls[k].tx = calls[1].tx
           /\ calls[k].op >= 1
    /\ \A n \in 0..Len(calls) : OpenAfter(n) \in {0, 1}

\* A finished run that issued both a query and an exec.
C10_Witness ==
  /\ Terminated
  /\ HasCall("query")
  /\ HasCall("exec")


(***************************************************************************)
(* C11.  Once Execute has ended after a successful BeginTransaction, by    *)
(* whatever path (normal end, failed assertion, Port failure, unsupported  *)
(* type, commit failure, cancellation), exactly one call of Commit or      *)
(* Rollback has been made on the transaction.                              *)
(***************************************************************************)
C11_FinalizedExactlyOnce ==
  (Terminated /\ Began) => CountCalls("commit") + CountCalls("rollback") = 1

\* A run cut by a cancellation ended with a Report and one Rollback.
C11_Witness ==
  /\ pc = "done"
  /\ ctxDone
  /\ Len(reports) > 0
  /\ CountCalls("rollback") = 1
  /\ ~HasCall("commit")

\* The Port call made for operation k failed with the cancellation of ctx.
CancelledDuring(k) ==
  \E j \in 1..Len(calls) : calls[j].op = k /\ calls[j].err \in CancelledErrors

(***************************************************************************)
(* C12.  When ctx is cancelled while operation k is running, the run ends  *)
(* there: no Port call is made for a later operation, and the run is about *)
(* to call Rollback, or it has called it and Execute has returned a        *)
(* non-nil error.                                                          *)
(***************************************************************************)
C12_CancellationAborts ==
  \A k \in 1..Len(ops) :
    CancelledDuring(k) =>
      /\ \A j \in 1..Len(calls) : calls[j].op <= k
      /\ \/ Aborting
         \/ /\ pc = "done"
            /\ HasCall("rollback")
            /\ ret.err # NoError

(***************************************************************************)
(* C13.  When Commit fails at the end of an apply-mode run, Execute        *)
(* returns a non-nil error together with the Reports collected.            *)
(***************************************************************************)
C13_CommitFailureKeepsReports ==
  (mode = "apply" /\ txState = "commitfailed") =>
    /\ ret.err # NoError
    /\ ret.reports = reports

\* Execute returned after a call of Rollback that returned an error.
RollbackFailed ==
  /\ pc = "done"
  /\ \E j \in 1..Len(calls) : calls[j].call = "rollback" /\ calls[j].err # NoError

(***************************************************************************)
(* C14.  A failure of Rollback is fatal and propagated: whenever a run     *)
(* has called Rollback and Rollback returned an error, Execute returns a   *)
(* non-nil error.                                                          *)
(***************************************************************************)
C14_RollbackFailurePropagated ==
  RollbackFailed => ret.err # NoError

(***************************************************************************)
(* C15.  When an apply-mode run ends on a Report with pass = false,        *)
(* Execute returns: its caller gets the Reports up to that one and a       *)
(* non-nil error.                                                          *)
(***************************************************************************)
C15_AbortReturnsReportsAndError ==
  (mode = "apply" /\ Terminated /\ Len(reports) > 0 /\ ~reports[Len(reports)].Pass) =>
    /\ pc = "done"
    /\ ret.reports = reports
    /\ ret.err # NoError

(***************************************************************************)
(* C16.  Once the process has ended after a run of Execute: a Report with  *)
(* pass = false gives a non-zero exit code, and a run whose Reports all    *)
(* passed and that met no error gives exit code zero.                      *)
(***************************************************************************)
C16_ExitCodeContract ==
  (exitCode # -1 /\ Terminated) =>
    /\ (\E k \in 1..Len(reports) : ~reports[k].Pass) => exitCode # 0
    /\ (AllPassed(reports) /\ ret.err = NoError) => exitCode = 0

(***************************************************************************)
(* C17.  When Execute returned Reports together with an error, runRun has  *)
(* written those Reports and sent both notifications with them and the     *)
(* error by the time it returns the error.                                 *)
(***************************************************************************)
C17_PartialReportsRendered ==
  (pc = "done" /\ exitCode # -1 /\ Len(ret.reports) > 0 /\ ret.err # NoError) =>
    /\ runErr # NoError
    /\ events = <<Event("output", ret.reports, NoError),
                  Event("github", ret.reports, ret.err),
                  Event("slack", ret.reports, ret.err)>>

\* runRun returned the error of a run that had collected two Reports.
C17_Witness ==
  /\ pc = "done"
  /\ exitCode = 1
  /\ Len(ret.reports) > 1
  /\ ret.err # NoError
  /\ Len(events) = 3

\* The Operation Validator passes the Result of Report r of operation op.
ValidatorPassed(r, op) ==
  CASE r.Result.kind = "rows" ->
         Verdict(TRUE, "assertion passed") \in validateSelectResult(r.Result.rows, op.Expected)
    [] r.Result.kind = "int64" ->
         validateDMLResult(r.Result.n, op.ExpectedChanges, op.Type).pass
    [] OTHER -> FALSE

(***************************************************************************)
(* C18.  In every Report, pass is true exactly when the Port call of the   *)
(* operation succeeded and the Validator passes its result, and message    *)
(* is "assertion passed" exactly when pass is true.                        *)
(***************************************************************************)
C18_PassAndMessage ==
  \A k \in 1..Len(reports) :
    /\ reports[k].Pass <=> (~PortFailed(k) /\ ValidatorPassed(reports[k], ops[k]))
    /\ (reports[k].Message = "assertion passed") <=> reports[k].Pass

\* A run produced a passing Report and then the Report of a Port failure.
C18_Witness ==
  /\ Len(reports) > 1
  /\ reports[1].Pass
  /\ ~reports[Len(reports)].Pass
  /\ PortFailed(Len(reports))

\* Report r copies the id, description and type of operation op.
CopiedFrom(r, op) ==
  /\ r.ID = op.ID
  /\ r.Description = op.Description
  /\ r.Type = op.Type

(***************************************************************************)
(* C19.  The Reports, collected and returned, are aligned with the         *)
(* definition: the k-th Report carries the id, description and type of     *)
(* the k-th operation.                                                     *)
(***************************************************************************)
C19_ReportsAligned ==
  /\ Len(reports) <= Len(ops)
  /\ \A k \in 1..Len(reports) : CopiedFrom(reports[k], ops[k])
  /\ Len(ret.reports) <= Len(ops)
  /\ \A k \in 1..Len(ret.reports) : CopiedFrom(ret.reports[k], ops[k])

\* Execute returned three Reports.
C19_Witness ==
  /\ pc = "done"
  /\ Len(ret.reports) = 3

\* Lengths agree and every column declared in expected is in actual with a
\* value that compareValues accepts.
DeclaredColumnsMatch ==
  /\ Len(vActual) = Len(vExpected)
  /\ \A k \in 1..Len(vExpected) :
       \A c \in DOMAIN vExpected[k] :
         /\ c \in DOMAIN vActual[k]
         /\ compareValues(vActual[k][c], vExpected[k][c])

ValuesOf(rows) == UNION { { r[c] : c \in DOMAIN r } : r \in rows }

RowCountMessage ==
  "row count mismatch: expected " \o ToString(Len(vExpected))
    \o ", got " \o ToString(Len(vActual))

MissingColumnMessages ==
  { "missing column '" \o c \o "' in row " \o ToString(k) :
      c \in Columns, k \in 0..(MaxRows - 1) }

ValueMismatchMessages ==
  { "value mismatch in row " \o ToString(k) \o ", column '" \o c
      \o "': expected " \o Sprint(e) \o ", got " \o Sprint(a) :
      k \in 0..(MaxRows - 1), c \in Columns,
      e \in ValuesOf(ExpectedRows), a \in ValuesOf(ActualRows) }

(***************************************************************************)
(* C20.  validateSelectResult(actual, expected) passes exactly when the    *)
(* lengths agree and every column declared in a row of expected is in the  *)
(* row of actual with a value the Comparator accepts; then its message is  *)
(* "assertion passed"; otherwise the message is the row-count message      *)
(* when the lengths differ, and a missing-column or value-mismatch         *)
(* message when they agree.                                                *)
(***************************************************************************)
C20_ValidateSelect ==
  vpc = "ret" =>
    /\ vVerdict.pass <=> DeclaredColumnsMatch
    /\ vVerdict.pass => vVerdict.message = "assertion passed"
    /\ ~vVerdict.pass =>
         IF Len(vActual) # Len(vExpected)
         THEN vVerdict.message = RowCountMessage
         ELSE vVerdict.message \in MissingColumnMessages \cup ValueMismatchMessages

\* Two rows passed, the first by the comparison of an int64 with a string.
C20_Witness ==
  /\ vpc = "ret"
  /\ vVerdict.pass
  /\ Len(vExpected) = 2
  /\ vExpected[1] = [id |-> StringV("1")]
  /\ vActual[1] = [id |-> Int64V(1)]


\* a and b are the same text, one as a string and the other as a []byte.
SameText(a, b) ==
  \/ a.t = "string" /\ b.t = "[]uint8" /\ b.v = UTF8(a.v)
  \/ a.t = "[]uint8" /\ b.t = "string" /\ a.v = UTF8(b.v)

(***************************************************************************)
(* C25.  compareValues returns true for the same text given as a []byte    *)
(* on one side and as a string on the other, in either argument position.  *)
(***************************************************************************)
C25_SameTextEqual ==
  (vpc = "ret" /\ SameText(vActual, vExpected)) => vVerdict = TRUE

\* The kind of a value: int and int64 are both integers.
Kind(x) ==
  CASE x.t \in {"int", "int64"} -> "integer"
    [] x.t = "[]uint8" -> "binary"
    [] OTHER -> x.t

(***************************************************************************)
(* C26.  For two non-nil values, compareValues returns the equality of     *)
(* their fmt "%v" renderings when their kinds differ, and the equality of  *)
(* their contents when their kinds are the same.                           *)
(***************************************************************************)
C26_TextAcrossKinds ==
  (vpc = "ret" /\ vActual.t # "nil" /\ vExpected.t # "nil") =>
    IF Kind(vActual) # Kind(vExpected)
    THEN vVerdict = (Sprint(vActual) = Sprint(vExpected))
    ELSE vVerdict = (vActual.v = vExpected.v)

\* The int64 1 was found equal to the string "1".
C26_Witness ==
  /\ vpc = "ret"
  /\ vActual = Int64V(1)
  /\ vExpected = StringV("1")
  /\ vVerdict = TRUE

(***************************************************************************)
(* C27.  compareValues(nil, nil) is true, and compareValues is false when  *)
(* exactly one argument is nil, whatever the other one is.                 *)
(***************************************************************************)
C27_NilHandling ==
  vpc = "ret" =>
    /\ (vActual.t = "nil" /\ vExpected.t = "nil") => vVerdict = TRUE
    /\ ((vActual.t = "nil") # (vExpected.t = "nil")) => vVerdict = FALSE

\* nil was found different from the string "<nil>".
C27_Witness ==
  /\ vpc = "ret"
  /\ vActual = NilV
  /\ vExpected = StringV("<nil>")
  /\ vVerdict = FALSE


\* Every column declared in a row of expected is in the row of actual at
\* the same position, with a value that compareValues accepts.
RowsMatch(actual, expected) ==
  /\ Len(actual) = Len(expected)
  /\ \A k \in 1..Len(expected) :
       \A c \in DOMAIN expected[k] :
         /\ c \in DOMAIN actual[k]
         /\ compareValues(actual[k][c], expected[k][c])

\* The rows of actual in the order p.
Reordered(actual, p) == [k \in 1..Len(actual) |-> actual[p[k]]]

(***************************************************************************)
(* C21.  validateSelectResult compares rows by position: actual rows that  *)
(* match expected in another order, but not in the order given, fail; so   *)
(* do [{id:2},{id:1}] against [{id:1},{id:2}].                             *)
(***************************************************************************)
C21_RowOrderSensitive ==
  vpc = "ret" =>
    /\ ( /\ ~RowsMatch(vActual, vExpected)
         /\ \E p \in Permutations(1..Len(vActual)) :
              RowsMatch(Reordered(vActual, p), vExpected) )
       => ~vVerdict.pass
    /\ ( /\ vActual = <<[id |-> Int64V(2)], [id |-> Int64V(1)]>>
         /\ vExpected = <<[id |-> IntV(1)], [id |-> IntV(2)]>> )
       => ~vVerdict.pass

\* [{id:2},{id:1}] against [{id:1},{id:2}] failed on row 0.
C21_Witness ==
  /\ vpc = "ret"
  /\ vActual = <<[id |-> Int64V(2)], [id |-> Int64V(1)]>>
  /\ vExpected = <<[id |-> IntV(1)], [id |-> IntV(2)]>>
  /\ vVerdict = Verdict(FALSE, "value mismatch in row 0, column 'id': expected 1, got 2")

\* The row with column c of value x added.
WithColumn(row, c, x) ==
  [d \in (DOMAIN row) \cup {c} |-> IF d = c THEN x ELSE row[d]]

\* The columns that can be added to row k of actual: those that neither it
\* nor row k of expected has.
Undeclared(k) ==
  { c \in Columns \cup {"email"} :
      /\ c \notin DOMAIN vActual[k]
      /\ k <= Len(vExpected) => c \notin DOMAIN vExpected[k] }

(***************************************************************************)
(* C22.  Adding to a row of actual a column that the row of expected at    *)
(* that position does not declare changes neither the verdict nor the      *)
(* message of validateSelectResult.                                        *)
(***************************************************************************)
C22_ExtraColumnsIgnored ==
  vpc = "ret" =>
    \A k \in 1..Len(vActual) :
      \A c \in Undeclared(k) :
        \A x \in {NilV, StringV("a@x.com")} :
          LET more == [vActual EXCEPT ![k] = WithColumn(vActual[k], c, x)]
          IN /\ validateSelectResult(more, vExpected)
                  = validateSelectResult(vActual, vExpected)
             /\ vVerdict \in validateSelectResult(more, vExpected)

\* A row with the undeclared column name passed against an expectation on
\* id alone.
C22_Witness ==
  /\ vpc = "ret"
  /\ vActual = <<[id |-> Int64V(1), name |-> StringV("a")]>>
  /\ vExpected = <<[id |-> IntV(1)]>>
  /\ vVerdict.pass

(***************************************************************************)
(* C23.  With an empty expected, validateSelectResult returns pass = false *)
(* for every actual, the empty one included.                               *)
(***************************************************************************)
C23_EmptyExpectedFails ==
  (vpc = "ret" /\ vExpected = <<>>) => ~vVerdict.pass


\* The map without its entries for types other than type.
OnlyEntry(expected, type) == [t \in (DOMAIN expected) \cap {type} |-> expected[t]]

(***************************************************************************)
(* C24.  validateDMLResult(actual, expected, type) returns (true,          *)
(* "assertion passed") exactly when expected has an entry for type that    *)
(* equals actual; without an entry the message is "no expected count       *)
(* specified for operation type '<type>'", with another count it is        *)
(* "affected rows mismatch: expected <e>, got <a>"; the entries of other   *)
(* types have no influence on what it returns.                             *)
(***************************************************************************)
C24_ValidateDML ==
  vpc = "ret" =>
    /\ vVerdict.pass <=> (vType \in DOMAIN vExpected /\ vExpected[vType] = vActual)
    /\ vVerdict.pass => vVerdict.message = "assertion passed"
    /\ vType \notin DOMAIN vExpected =>
         vVerdict.message
           = "no expected count specified for operation type '" \o vType \o "'"
    /\ (vType \in DOMAIN vExpected /\ vExpected[vType] # vActual) =>
         vVerdict.message
           = "affected rows mismatch: expected " \o ToString(vExpected[vType])
               \o ", got " \o ToString(vActual)
    /\ vVerdict = validateDMLResult(vActual, OnlyEntry(vExpected, vType), vType)

\* An update expected to change 1 row changed 0; the entry of delete, which
\* is 0, did not make it pass.
C24_Witness ==
  /\ vpc = "ret"
  /\ vType = TypeUpdate
  /\ vActual = 0
  /\ DOMAIN vExpected = {TypeUpdate, TypeDelete}
  /\ vExpected[TypeDelete] = 0
  /\ vVerdict = Verdict(FALSE, "affected rows mismatch: expected 1, got 0")


\* LoadDefinitions returned a Definition.
Loaded == lpc = "ret" /\ loaded.err = NoError

(***************************************************************************)
(* C29.  Every operation of a definition that Validate accepted has one    *)
(* of the four types and exactly the expectation of its type: a select     *)
(* has expected rows and no expected_changes, a DML has expected_changes   *)
(* and no expected rows.                                                   *)
(***************************************************************************)
C29_OneExpectationPerType ==
  Loaded =>
    \A k \in 1..Len(loaded.def.Operations) :
      LET op == loaded.def.Operations[k]
      IN /\ op.Type \in AllowedTypes
         /\ op.Type = TypeSelect =>
              (op.Expected # <<>> /\ DOMAIN op.ExpectedChanges = {})
         /\ op.Type # TypeSelect =>
              (DOMAIN op.ExpectedChanges # {} /\ op.Expected = <<>>)

(***************************************************************************)
(* C30.  After a successful load every operation has a non-empty id and    *)
(* the ids are pairwise distinct.                                          *)
(***************************************************************************)
C30_UniqueIDs ==
  Loaded =>
    LET operations == loaded.def.Operations
    IN /\ \A k \in 1..Len(operations) : operations[k].ID # ""
       /\ \A j, k \in 1..Len(operations) :
            j # k => operations[j].ID # operations[k].ID


(***************************************************************************)
(* C28.  A run of a loaded definition never has a Report for a DML         *)
(* operation whose expected_changes has no entry for the type of the       *)
(* operation: such an operation is rejected when the definition is loaded. *)
(***************************************************************************)
C28_MissingExpectationNoReport ==
  caller = "runRun" =>
    \A k \in 1..Len(reports) :
      ops[k].Type \in DMLTypes => ops[k].Type \in DOMAIN ops[k].ExpectedChanges

\* The one call made for operation k.
CallOf(k) == calls[CHOOSE j \in 1..Len(calls) : calls[j].op = k]

(***************************************************************************)
(* C35.  The transaction is finalized by Execute alone: every call made    *)
(* for an operation, by executeOperation, executeSelect or executeDML and  *)
(* the validators below them, is a queryRows or an exec, never a Commit or *)
(* a Rollback; and while the loop over the operations runs, and until      *)
(* Execute calls Rollback once it has left, the transaction is open and    *)
(* neither Commit nor Rollback has been called.                            *)
(***************************************************************************)
C35_OnlyExecuteFinalizes ==
  /\ \A k \in 1..Len(calls) :
       calls[k].op > 0 => calls[k].call \in {"query", "exec"}
  /\ \A k \in 1..Len(calls) :
       calls[k].call \in {"commit", "rollback"} => calls[k].op = 0 /\ Terminated
  /\ (pc = "loop" \/ Aborting) =>
       txState = "open" /\ ~HasCall("commit") /\ ~HasCall("rollback")

\* A run whose first operation failed at the Port and whose loop then went
\* on to an operation of an unsupported type.
C35_Witness ==
  /\ pc = "done"
  /\ Len(reports) >= 1
  /\ PortFailed(1)
  /\ Len(outcomes) > Len(reports)
  /\ ops[Len(outcomes)].Type \notin AllowedTypes

(***************************************************************************)
(* C36.  Each operation that has a Report caused exactly one Port call:    *)
(* queryRows for a select, exec for an insert, update or delete.  The      *)
(* result of the Report, as the run writes it, is null if and only if that *)
(* call failed; otherwise the Result is the rows the query returned or the *)
(* count the statement affected, on the table as the earlier statements    *)
(* left it, whether the validation passed or not.                          *)
(***************************************************************************)
C36_OnePortCallAndRawResult ==
  \A k \in 1..Len(reports) :
    /\ Cardinality({j \in 1..Len(calls) : calls[j].op = k}) = 1
    /\ CallOf(k).call = (IF ops[k].Type = TypeSelect THEN "query" ELSE "exec")
    /\ (MarshalResult(reports[k].Result) = NilResult) <=> (CallOf(k).err # NoError)
    /\ CallOf(k).err = NoError =>
         reports[k].Result =
           IF ops[k].Type = TypeSelect
           THEN RowsResult(QueryRows(Replay(k - 1), ops[k].SQL).rows)
           ELSE CountResult(Exec(Replay(k - 1), ops[k].SQL).affected)

(***************************************************************************)
(* C37.  When BeginTransaction fails, Execute, in plan and in apply mode,  *)
(* returns an error that is not nil and no Reports, and the failed         *)
(* BeginTransaction is the only call it has made: no queryRows, exec,      *)
(* Commit or Rollback.                                                     *)
(***************************************************************************)
C37_BeginFailure ==
  (PastBegin /\ ~Began) =>
    /\ pc = "done"
    /\ ret.err # NoError
    /\ ret.reports = <<>>
    /\ reports = <<>>
    /\ Len(calls) = 1
    /\ calls[1].call = "begin" /\ calls[1].err # NoError

\* Execute has returned from a failed BeginTransaction on a definition of
\* several operations.
C37_Witness ==
  /\ pc = "done"
  /\ ~Began
  /\ Len(ops) >= 2

\* The Report sequences of an apply-mode run: the slice of the loop, what
\* Execute returned, and what runRun wrote and sent.
ReportSequences ==
  {reports, ret.reports} \cup {events[k].reports : k \in 1..Len(events)}

(***************************************************************************)
(* C38.  In every Report sequence of an apply-mode run every Report but    *)
(* the last has pass = true: at most one Report has pass = false, and it   *)
(* is the last one.                                                        *)
(***************************************************************************)
C38_OnlyLastMayFail ==
  mode = "apply" =>
    \A rs \in ReportSequences : \A k \in 1..(Len(rs) - 1) : rs[k].Pass

\* An apply-mode run that was ended by the failed Report of its third
\* operation.
C38_Witness ==
  /\ mode = "apply"
  /\ Terminated
  /\ Len(reports) = 3
  /\ ~reports[3].Pass

(***************************************************************************)
(* C39.  compareValues is symmetric: the call compareValues(a, b) returns  *)
(* what compareValues(b, a) returns, for nil and other values, of the same *)
(* kind or of different kinds.                                             *)
(***************************************************************************)
C39_Symmetric ==
  vpc = "ret" => vVerdict = compareValues(vExpected, vActual)

\* A []byte and a string of the same printed text were found equal, in the
\* order that puts the string first.
C39_Witness ==
  /\ vpc = "ret"
  /\ vActual = StringV("[49]")
  /\ vExpected = BytesV(<<49>>)
  /\ vVerdict = TRUE

(***************************************************************************)
(* C34.  Every Report of a run carries the SQL statement of its operation: *)
(* the k-th Report has a field SQL that holds the text of the k-th         *)
(* operation, for the comment and the notification to display.  The Report *)
(* that executeSelect and executeDML build has the fields ID, Description, *)
(* Type, Result, Pass and Message only.                                    *)
(***************************************************************************)
C34_ReportCarriesSQL ==
  \A rs \in ReportSequences :
    \A k \in 1..Len(rs) :
      /\ "SQL" \in DOMAIN rs[k]
      /\ rs[k].SQL = ops[k].SQL

\* The operations of the files of the call, in the order of the files.
RECURSIVE Declared(_)
Declared(k) ==
  IF k = 0 THEN <<>> ELSE Declared(k - 1) \o files[k].def.Operations

DeclaredOps == Declared(Len(files))

\* Character c is the upper-case letter u or a letter whose upper case is u.
SameLetter(c, u) ==
  \/ \E m \in 1..Len(UpperCase) : UpperCase[m] = u /\ c \in {UpperCase[m], LowerCase[m]}
  \/ \E m \in 1..Len(OtherLetters) : OtherLetters[m][1] = c /\ OtherLetters[m][2] = u

\* sql is some white space, then the keyword in any case, then anything.
StartsWithKeyword(sql, keyword) ==
  \E n \in 0..Len(sql) :
    /\ \A j \in 1..n : sql[j] \in Whitespace
    /\ Len(sql) >= n + Len(keyword)
    /\ \A j \in 1..Len(keyword) : SameLetter(sql[n + j], keyword[j])

Keyword(type) ==
  CASE type = TypeSelect -> SQLSelect
    [] type = TypeInsert -> SQLInsert
    [] type = TypeUpdate -> SQLUpdate
    [] type = TypeDelete -> SQLDelete

Undetectable(sql) == \A t \in AllowedTypes : ~StartsWithKeyword(sql, Keyword(t))

\* The ids Validate can name in an error: the declared ones and operation_N.
ErrorIDs ==
  {DeclaredOps[k].ID : k \in 1..Len(DeclaredOps)}
    \cup {"operation_" \o ToString(n) : n \in 0..(Len(DeclaredOps) + 2)}

(***************************************************************************)
(* C33.  In a definition that has been loaded, an operation declared       *)
(* without a type has the type of the first keyword of its SQL after the   *)
(* leading white space, in whatever case (SELECT, INSERT, UPDATE, DELETE), *)
(* and an operation declared with a type keeps it.  A definition with an   *)
(* operation of no type whose SQL starts with anything else is rejected,   *)
(* and the error "unable to detect SQL type" is returned for such an       *)
(* operation only.                                                         *)
(***************************************************************************)
C33_TypeDetection ==
  lpc = "ret" =>
    /\ loaded.err = NoError =>
         /\ Len(loaded.def.Operations) = Len(DeclaredOps)
         /\ \A k \in 1..Len(DeclaredOps) :
              IF DeclaredOps[k].Type = ""
              THEN /\ loaded.def.Operations[k].Type \in AllowedTypes
                   /\ StartsWithKeyword(DeclaredOps[k].SQL,
                                        Keyword(loaded.def.Operations[k].Type))
              ELSE loaded.def.Operations[k].Type = DeclaredOps[k].Type
    /\ (\A f \in 1..Len(files) : files[f].read = NoError /\ files[f].err = NoError)
         /\ (\E k \in 1..Len(DeclaredOps) :
               DeclaredOps[k].Type = "" /\ DeclaredOps[k].SQL # <<>>
                 /\ Undetectable(DeclaredOps[k].SQL))
         => loaded.err # NoError
    /\ (\E id \in ErrorIDs :
          loaded.err = "operation[" \o id \o "]: unable to detect SQL type from query")
         => \E k \in 1..Len(DeclaredOps) :
              DeclaredOps[k].Type = "" /\ Undetectable(DeclaredOps[k].SQL)

\* A loaded definition in which a select in lower case between white space,
\* declared without a type, became a select and a SELECT declared as a
\* delete stayed a delete.
C33_Witness ==
  /\ Loaded
  /\ \E k, m \in 1..Len(DeclaredOps) :
       /\ DeclaredOps[k].Type = "" /\ DeclaredOps[k].SQL = SQLSelectLower
       /\ loaded.def.Operations[k].Type = TypeSelect
       /\ DeclaredOps[m].Type = TypeDelete /\ DeclaredOps[m].SQL = SQLSelect
       /\ loaded.def.Operations[m].Type = TypeDelete

\* Every file of the call was read and decoded.
AllParsed == \A k \in 1..Len(files) : files[k].read = NoError /\ files[k].err = NoError

\* The explicit ids of the files before file k.
RECURSIVE IDsBefore(_)
IDsBefore(k) ==
  IF k <= 1 THEN {}
  ELSE LET fileOps == files[k - 1].def.Operations
       IN IDsBefore(k - 1)
            \cup {fileOps[j].ID : j \in {h \in 1..Len(fileOps) : fileOps[h].ID # ""}}

\* Operation j of file k repeats an explicit id of an earlier file or of an
\* earlier operation of file k.
Repeats(k, j) ==
  LET fileOps == files[k].def.Operations
  IN /\ fileOps[j].ID # ""
     /\ \/ fileOps[j].ID \in IDsBefore(k)
        \/ \E h \in 1..(j - 1) : fileOps[h].ID = fileOps[j].ID

VersionDiffers(k) == files[k].def.Version # files[1].def.Version

\* File k cannot be merged into the files before it.
Unmergeable(k) ==
  k >= 2 /\ (VersionDiffers(k) \/ \E j \in 1..Len(files[k].def.Operations) : Repeats(k, j))

\* The error of mergeDefinitions on file k: the versions are compared first.
MergeFailure(k) ==
  IF VersionDiffers(k)
  THEN "version mismatch: base has version " \o ToString(files[1].def.Version)
         \o ", additional has version " \o ToString(files[k].def.Version)
  ELSE LET fileOps == files[k].def.Operations
           first == CHOOSE j \in 1..Len(fileOps) :
                      Repeats(k, j) /\ \A h \in 1..(j - 1) : ~Repeats(k, h)
       IN "duplicate operation ID: " \o fileOps[first].ID

\* The params of the files, a later file overriding an earlier one.
RECURSIVE ParamsUpTo(_)
ParamsUpTo(k) ==
  IF k = 0 THEN NoParams
  ELSE LET earlier == ParamsUpTo(k - 1)
           own == files[k].def.Params
       IN [key \in (DOMAIN earlier) \cup (DOMAIN own) |->
             IF key \in DOMAIN own THEN own[key] ELSE earlier[key]]

\* The text of sql with each action "{{ .params.KEY }}" in it replaced by
\* the value of KEY in params, and by "<no value>", as is an action on a
\* field of KEY, when params has no KEY.
RECURSIVE Rendered(_, _)
Rendered(sql, params) ==
  LET open == IndexFrom(sql, <<"{", "{">>, 1)
      close == IndexFrom(sql, <<"}", "}">>, open + 2)
      chain == TrimSpace(SubSeq(sql, open + 2, close - 1))
      fields == SubSeq(chain, Len(<<".", "p", "a", "r", "a", "m", "s", ".">>) + 1, Len(chain))
      dot == IndexFrom(fields, <<".">>, 1)
      key == IF dot = 0 THEN fields ELSE SubSeq(fields, 1, dot - 1)
      value == IF key \in DOMAIN params THEN params[key]
               ELSE <<"<", "n", "o", " ", "v", "a", "l", "u", "e", ">">>
  IN IF open = 0 \/ close = 0 THEN sql
     ELSE (SubSeq(sql, 1, open - 1) \o value)
            \o Rendered(SubSeq(sql, close + 2, Len(sql)), params)

(***************************************************************************)
(* C32.  LoadDefinitions on several files that all decode.  If some file   *)
(* after the first has a version other than that of the first, or an       *)
(* operation with an explicit id that an earlier file or an earlier        *)
(* operation of the same file has, the call fails at the first such file:  *)
(* with "version mismatch" when the versions differ, which is compared     *)
(* first, else with "duplicate operation ID" and the first repeated id.    *)
(* Otherwise a call that succeeds returns the operations of the files in   *)
(* the order of the files and in their order within each file, and the     *)
(* params of the files with a later file overriding an earlier one.        *)
(***************************************************************************)
C32_Merge ==
  (lpc = "ret" /\ Len(files) >= 2 /\ AllParsed) =>
    IF \E k \in 1..Len(files) : Unmergeable(k)
    THEN LET k == CHOOSE n \in 1..Len(files) :
                    Unmergeable(n) /\ \A m \in 1..(n - 1) : ~Unmergeable(m)
         IN loaded.err = "failed to merge config file " \o ConfigPath(k) \o ": "
                           \o MergeFailure(k)
    ELSE loaded.err = NoError =>
           /\ Len(loaded.def.Operations) = Len(DeclaredOps)
           /\ \A k \in 1..Len(DeclaredOps) :
                /\ loaded.def.Operations[k].SQL =
                     Rendered(DeclaredOps[k].SQL, ParamsUpTo(Len(files)))
                /\ loaded.def.Operations[k].Expected = DeclaredOps[k].Expected
                /\ loaded.def.Operations[k].ExpectedChanges = DeclaredOps[k].ExpectedChanges
                /\ DeclaredOps[k].ID # "" => loaded.def.Operations[k].ID = DeclaredOps[k].ID
           /\ loaded.def.Params = ParamsUpTo(Len(files))
           /\ loaded.def.Version = files[1].def.Version

\* Two files of the same version were merged: both declare the param env,
\* and each holds one operation, of different SQL; the SQL of the first
\* names the param and was rendered with the value of the second file.
C32_Witness ==
  /\ Loaded
  /\ Len(files) = 2
  /\ Len(files[1].def.Operations) = 1 /\ Len(files[2].def.Operations) = 1
  /\ files[1].def.Operations[1].SQL # files[2].def.Operations[1].SQL
  /\ files[1].def.Operations[1].SQL = SQLSelectEnv
  /\ loaded.def.Operations[1].SQL = (SQLSelect \o <<" ">>) \o ParamValue(2)
  /\ DOMAIN files[1].def.Params = {EnvKey} /\ DOMAIN files[2].def.Params = {EnvKey}
  /\ loaded.def.Params[EnvKey] = ParamValue(2)

\* Reports r and q agree in pass, message and result.
SameReport(r, q) == r.Pass = q.Pass /\ r.Message = q.Message /\ r.Result = q.Result

(***************************************************************************)
(* C31.  Plan-mode idempotence: when the same plan-mode definition has     *)
(* been run twice in succession on a table that nothing else modifies,    *)
(* and both runs began their transaction, the two runs returned Report     *)
(* sequences of the same length that agree in pass, message and result at  *)
(* every position.                                                         *)
(***************************************************************************)
C31_PlanIdempotent ==
  (pc = "done" /\ second.pc = "done" /\ Began /\ second.txState # "none") =>
    /\ Len(ret.reports) = Len(second.ret.reports)
    /\ \A k \in 1..Len(ret.reports) : SameReport(ret.reports[k], second.ret.reports[k])

\* The first run, as the record of a run.
First ==
  [mode |-> mode, ops |-> ops, txTable |-> txTable, txState |-> txState, pc |-> pc,
   i |-> i, reports |-> reports, ret |-> ret, calls |-> calls]

\* Run r, whose transaction has the handle tx, has used no transaction but
\* its own, its Reports are those of its own operations in order, each
\* passed or failed by its own result, and it has committed exactly when
\* it is an apply-mode run whose own operations all passed.
OnItsOwn(r, tx) ==
  /\ \A k \in 1..Len(r.calls) :
       IF r.calls[k].call = "begin" /\ r.calls[k].err # NoError
       THEN r.calls[k].tx = 0
       ELSE r.calls[k].tx = tx
  /\ Len(r.reports) <= Len(r.ops)
  /\ \A k \in 1..Len(r.reports) :
       /\ CopiedFrom(r.reports[k], r.ops[k])
       /\ r.reports[k].Pass <=> ValidatorPassed(r.reports[k], r.ops[k])
  /\ (r.pc \in {"done", "exited"} /\ r.txState # "none") =>
       LET finals == {k \in 1..Len(r.calls) : r.calls[k].call \in {"commit", "rollback"}}
       IN /\ Cardinality(finals) = 1
          /\ (\E k \in finals : r.calls[k].call = "commit")
               <=> (r.mode = "apply" /\ Len(r.reports) = Len(r.ops) /\ AllPassed(r.reports))

(***************************************************************************)
(* C40.  Two runs made at once, their steps interleaved in any way, share  *)
(* the table and nothing else: each run makes its calls on its own         *)
(* transaction and commits or rolls back that one only, its Reports are    *)
(* those of its own operations, in order, passed or failed by their own    *)
(* results, and it commits exactly when it is an apply-mode run whose own  *)
(* operations all passed, whatever the other run has reported or decided.  *)
(***************************************************************************)
C40_RunsIndependent ==
  /\ TheTx # SecondTx
  /\ OnItsOwn(First, TheTx)
  /\ OnItsOwn(second, SecondTx)

\* The first run committed two operations that changed the table; the
\* second, an apply-mode run of two operations, rolled back, and its select
\* returned rows other than those of the table as committed.
C40_Witness ==
  /\ txState = "committed" /\ Len(reports) = 2
  /\ db # db0
  /\ second.mode = "apply" /\ second.txState = "rolledback"
  /\ Len(second.reports) = 2
  /\ second.reports[2].Result.kind = "rows"
  /\ second.reports[2].Result # RowsResult(QueryRows(db, SQLSelect).rows)

====
